---- MODULE Spec2Model ----
(***************************************************************************)
(* A model of server.js: the POST /api/chat handler (the adequacy-gated    *)
(* search orchestration loop), the two advisors checkIfNeedsSearch and     *)
(* confirmResponseAdequacy with their tolerant JSON extraction,            *)
(* performWebSearch, as far as the handler depends on it, getCurrentDate,  *)
(* and the GET /api/config and GET /api/models handlers.                   *)
(*                                                                         *)
(* Specifications: Spec (one chat request), SpecClock (the wall clock      *)
(* running), SpecSink (the caller free to disconnect), SpecTwo (two chat   *)
(* requests interleaved at their awaits), SpecAdvisors (the advisors on    *)
(* any reply), SpecDate (getCurrentDate at any instant, in any zone) and   *)
(* SpecApi (the GET endpoints).                                            *)
(*                                                                         *)
(* Text is modelled as sequences.  A language-model reply is a sequence of *)
(* tokens: "{", "}", "w" (white space), "x" (any other text), "[fence]"    *)
(* (three backticks), "[fence json]" (three backticks, then json) and body *)
(* tokens, each standing for the member list of one JSON object.  Answer   *)
(* text (a draft, a stream fragment) is a sequence of character codes.     *)
(***************************************************************************)
EXTENDS Integers, Sequences, FiniteSets, TLC

\* ------------------------------------------------------------------ bounds

\* Longest buffered draft, in characters.
MaxDraftLen == 21
\* Most fragments one incremental completion yields.
MaxFrags == 2
\* Most items the search provider answers with.
MaxItems == 2
\* Longest language-model reply, in tokens, the advisors are applied to.
MaxLen == 5
\* Hours either side of the New Year the instants of the date model span.
MaxInstant == 26
\* Hours the wall clock advances while one request is handled.
MaxTicks == 1
\* Most models the backend lists.
MaxModels == 2
\* Longest history, in entries, the browser client sends with a request.
MaxHistory == 2

\* Most results the search provider has for one query.
MaxAvailable == 7

\* ------------------------------------------------------- program constants

chunkSize == 10
maxRetries == 1
\* The num parameter of the search request.
num == 5

\* --------------------------------------------------------------- JS values

\* The JavaScript value undefined (a missing property) and the JSON booleans.
Undefined == "undefined"
JTrue == "true"
JFalse == "false"
\* A request message that is a truthy non-string JSON value (a number).
NonString == "42"

\* JavaScript truthiness of the values the model uses.
Truthy(v) == v \notin {Undefined, "", JFalse}

\* a || b
Or(a, b) == IF Truthy(a) THEN a ELSE b

Min(a, b) == IF a < b THEN a ELSE b

\* ------------------------------------------------------ decoded JSON objects

\* An object with none of the properties the code reads: JSON.parse('{}').
EmptyObject ==
  [is_adequate |-> Undefined, needs_search |-> Undefined,
   search_query |-> Undefined, reasoning |-> Undefined]

Obj(adequate, needs, query, reasoning) ==
  [is_adequate |-> adequate, needs_search |-> needs,
   search_query |-> query, reasoning |-> reasoning]

\* The member lists a reply may carry, and the object each decodes to.
Bodies ==
  {"bSearchQ", "bNoSearch", "bSearchNoQ", "bAdequate", "bInadequateQ",
   "bInadequateNoQ", "bAdequateButSearch", "bNoSearchQ"}

Decode(b) ==
  CASE b = "bSearchQ"           -> Obj(Undefined, JTrue, "q1", "r")
    [] b = "bNoSearch"          -> Obj(Undefined, JFalse, "", "r")
    [] b = "bSearchNoQ"         -> Obj(Undefined, JTrue, "", "r")
    [] b = "bAdequate"          -> Obj(JTrue, JFalse, "", "r")
    [] b = "bInadequateQ"       -> Obj(JFalse, JTrue, "q2", "r")
    [] b = "bInadequateNoQ"     -> Obj(JFalse, JTrue, "", "r")
    [] b = "bAdequateButSearch" -> Obj(JTrue, JTrue, "q2", "r")
    [] b = "bNoSearchQ"         -> Obj(Undefined, JFalse, "q1", "r")

\* ------------------------------------------------------------ string helpers

FirstIndex(s, c) == CHOOSE i \in 1..Len(s) : s[i] = c /\ \A j \in 1..(i - 1) : s[j] # c
LastIndex(s, c) == CHOOSE i \in 1..Len(s) : s[i] = c /\ \A j \in (i + 1)..Len(s) : s[j] # c
Includes(s, c) == \E i \in 1..Len(s) : s[i] = c

\* String.prototype.trim
RECURSIVE Trim(_)
Trim(s) ==
  IF s = <<>> THEN s
  ELSE IF Head(s) = "w" THEN Trim(Tail(s))
  ELSE IF s[Len(s)] = "w" THEN Trim(SubSeq(s, 1, Len(s) - 1))
  ELSE s

\* s.split(sep)[0] and the rest after the first separator
BeforeFirst(s, sep) == IF Includes(s, sep) THEN SubSeq(s, 1, FirstIndex(s, sep) - 1) ELSE s
AfterFirst(s, sep) == SubSeq(s, FirstIndex(s, sep) + 1, Len(s))
\* s.split(sep)[1], for s that includes sep
SplitSecond(s, sep) == BeforeFirst(AfterFirst(s, sep), sep)

\* s.replace(/^[^{]*/, '')
StripLeading(s) == IF Includes(s, "{") THEN SubSeq(s, FirstIndex(s, "{"), Len(s)) ELSE <<>>
\* s.replace(/[^}]*$/, '')
StripTrailing(s) == IF Includes(s, "}") THEN SubSeq(s, 1, LastIndex(s, "}")) ELSE <<>>

StartsWith(s, c) == s # <<>> /\ Head(s) = c
EndsWith(s, c) == s # <<>> /\ s[Len(s)] = c

\* The extraction both advisors apply to the trimmed content before JSON.parse.
ExtractJson(content) ==
  LET fenced ==
        IF Includes(content, "[fence json]")
          THEN Trim(BeforeFirst(SplitSecond(content, "[fence json]"), "[fence]"))
        ELSE IF Includes(content, "[fence]")
          THEN Trim(BeforeFirst(SplitSecond(content, "[fence]"), "[fence]"))
        ELSE content
      stripped == StripTrailing(StripLeading(fenced))
      opened == IF StartsWith(stripped, "{") THEN stripped ELSE <<"{">> \o stripped
  IN  IF EndsWith(opened, "}") THEN opened ELSE opened \o <<"}">>

\* JSON.parse of a token sequence: white space between tokens is skipped; the
\* text is an object iff it is "{" "}" or "{" members "}".
JsonParse(s) ==
  LET t == SelectSeq(s, LAMBDA c : c # "w")
  IN  IF t = <<"{", "}">> THEN [ok |-> TRUE, value |-> EmptyObject]
      ELSE IF Len(t) = 3 /\ t[1] = "{" /\ t[2] \in Bodies /\ t[3] = "}"
        THEN [ok |-> TRUE, value |-> Decode(t[2])]
      ELSE [ok |-> FALSE, value |-> EmptyObject]

\* A reply of ollama.chat({stream: false}): the call throws, or yields content.
Throws == [ok |-> FALSE, content |-> <<>>]
Reply(content) == [ok |-> TRUE, content |-> content]

\* --------------------------------------------------------------- the advisors

NeedFallback ==
  Obj(Undefined, JFalse, "", "Reasoning check failed, defaulting to no search")

AdequacyFallback ==
  Obj(JTrue, JFalse, "", "Confirmation check failed, defaulting to adequate")

\* try { ... JSON.parse(jsonStr) ... return parsed } catch { return fallback }
ParseOrFallback(reply, fallback) ==
  IF ~reply.ok THEN fallback
  ELSE LET parsed == JsonParse(ExtractJson(Trim(reply.content)))
       IN  IF parsed.ok THEN parsed.value ELSE fallback

checkIfNeedsSearch(reply) == ParseOrFallback(reply, NeedFallback)

confirmResponseAdequacy(reply) == ParseOrFallback(reply, AdequacyFallback)

\* ------------------------------------------------------------ search results

\* searchResults is null, or an array of results (an empty array is truthy).
Null == [null |-> TRUE, items |-> <<>>]
Results(items) == [null |-> FALSE, items |-> items]

\* What the search provider does with one request.
SearchOutcomes ==
  {[kind |-> k, n |-> 0] : k \in {"fetchThrows", "notOk", "errorPayload"}}
    \cup {[kind |-> "items", n |-> n] : n \in 0..MaxItems}

\* performWebSearch(query), the provider answering with `outcome`: throws
\* (ok is FALSE, error is the message), or returns the mapped items.
performWebSearch(configured, query, outcome) ==
  IF ~configured
    THEN [ok |-> FALSE, fetched |-> FALSE, results |-> Null,
          error |-> "Google API credentials not configured"]
  ELSE IF outcome.kind = "fetchThrows"
    THEN [ok |-> FALSE, fetched |-> TRUE, results |-> Null, error |-> "fetch failed"]
  ELSE IF outcome.kind = "notOk"
    THEN [ok |-> FALSE, fetched |-> TRUE, results |-> Null,
          error |-> "Google Search API error: status"]
  ELSE IF outcome.kind = "errorPayload"
    THEN [ok |-> FALSE, fetched |-> TRUE, results |-> Null,
          error |-> "Google Search API error: payload"]
  ELSE [ok |-> TRUE, fetched |-> TRUE,
        results |-> Results([i \in 1..outcome.n |-> [query |-> query, rank |-> i]]),
        error |-> ""]

\* ------------------------------------------------------------- date context

\* An instant is a number of hours from 1 January 2026, 00:00 UTC (negative:
\* before it); a time zone is its offset from UTC in hours.
Instants == (0 - MaxInstant)..MaxInstant
Zones == (0 - 12)..14

\* The calendar date of the day that holds hour h (within a month either side
\* of the New Year).
Civil(h) ==
  LET d == h \div 24
  IN  IF d >= 0 THEN [year |-> 2026, month |-> 1, day |-> d + 1]
      ELSE [year |-> 2025, month |-> 12, day |-> 32 + d]

\* The day of the week of that day, 0 for Sunday: 1 January 2026 is a Thursday.
Weekday(h) == (4 + (h \div 24)) % 7

NoDate ==
  [iso |-> [year |-> 0, month |-> 0, day |-> 0], dayOfWeek |-> 0,
   currentYear |-> 0, previousYear |-> 0]

\* getCurrentDate() at an instant, on a server in the zone `offset`:
\* toISOString() gives the date in UTC, toLocaleDateString() and getFullYear()
\* the day and the year in the server's zone.
getCurrentDate(instant, offset) ==
  LET isoDate == Civil(instant)
      dayOfWeek == Weekday(instant + offset)
      currentYear == Civil(instant + offset).year
      previousYear == currentYear - 1
  IN  [iso |-> isoDate, dayOfWeek |-> dayOfWeek, currentYear |-> currentYear,
       previousYear |-> previousYear]

\* --------------------------------------------------------------- stream events

NoMessage == [text |-> "", query |-> "", n |-> 0, error |-> ""]

\* { content: '', type, message }
Progress(type, msg) ==
  [keys |-> {"content", "type", "message"}, content |-> <<>>, type |-> type,
   message |-> msg, done |-> FALSE]

\* { content: chunk, done: false }
Content(chunk) ==
  [keys |-> {"content", "done"}, content |-> chunk, type |-> "",
   message |-> NoMessage, done |-> FALSE]

\* { content: '', done: true }
Done ==
  [keys |-> {"content", "done"}, content |-> <<>>, type |-> "",
   message |-> NoMessage, done |-> TRUE]

\* res.write("data: " + JSON.stringify(payload) + "\n\n"): what one write puts
\* on the stream.
Frame(payload) == [prefix |-> "data: ", json |-> payload, suffix |-> "\n\n"]

Analyzing == Progress("reasoning", [NoMessage EXCEPT !.text = "Analyzing if web search is needed..."])
Searching(q) == Progress("search", [NoMessage EXCEPT !.text = "Searching the web for", !.query = q])
Found(n) == Progress("search", [NoMessage EXCEPT !.text = "Found search result(s)", !.n = n])
NoResults == Progress("search", [NoMessage EXCEPT !.text = "No search results found"])
SearchFailed(e) == Progress("error", [NoMessage EXCEPT !.text = "Web search failed", !.error = e])
Generating == Progress("thinking", [NoMessage EXCEPT !.text = "Generating response..."])
Verifying == Progress("reasoning", [NoMessage EXCEPT !.text = "Verifying response adequacy..."])

\* SearchEvents reporting the count of an empty result too.
SearchEventsCounted(r) ==
  IF ~r.ok THEN <<SearchFailed(r.error)>>
  ELSE <<Found(Len(r.results.items))>>

\* The events written after a search call returned or threw.
SearchEvents(r) ==
  IF ~r.ok THEN <<SearchFailed(r.error)>>
  ELSE IF Len(r.results.items) > 0 THEN <<Found(Len(r.results.items))>>
  ELSE <<NoResults>>

\* SliceFrom stepping one character too far: a character is lost between slices.
RECURSIVE SliceFromGap(_, _)
SliceFromGap(text, i) ==
  IF i < Len(text)
    THEN <<Content(SubSeq(text, i + 1, Min(i + chunkSize, Len(text))))>>
           \o SliceFromGap(text, i + chunkSize + 1)
  ELSE <<>>

\* for (let i = 0; i < fullResponse.length; i += chunkSize)
\*   write({ content: fullResponse.substring(i, i + chunkSize), done: false })
RECURSIVE SliceFrom(_, _)
SliceFrom(text, i) ==
  IF i < Len(text)
    THEN <<Content(SubSeq(text, i + 1, Min(i + chunkSize, Len(text))))>>
           \o SliceFrom(text, i + chunkSize)
  ELSE <<>>

StreamDraft(text) == SliceFrom(text, 0)

\* ------------------------------------------------------------ system prompt

NoPrompt == [results |-> <<>>, label |-> "", note |-> FALSE]

\* The part of systemPrompt that depends on the search: the results block with
\* its label, or the 'search was attempted' note, or neither.
systemPrompt(decision, results) ==
  IF ~results.null /\ Len(results.items) > 0
    THEN [results |-> results.items, label |-> Or(decision.search_query, "your query"),
          note |-> FALSE]
  ELSE [results |-> <<>>, label |-> "", note |-> Truthy(decision.needs_search)]

\* One call to a collaborator, as the handler issues it: the search query, the
\* search part of the system prompt and the date snapshot the prompt carries.
Call(fn, query, prompt, date) ==
  [fn |-> fn, query |-> query, prompt |-> prompt, date |-> date,
   messages |-> <<>>, written |-> 0]

\* One entry of a messages array: the system turn holds the system prompt, the
\* other turns a text.
Entry(role, content) ==
  [role |-> role, content |-> content, prompt |-> NoPrompt, draft |-> <<>>]
SystemEntry(prompt) ==
  [role |-> "system", content |-> "", prompt |-> prompt, draft |-> <<>>]

\* The conversationHistory property of a request body: missing (the default,
\* an empty array), or two earlier turns.
Histories ==
  {<<>>, <<Entry("user", "earlier question"), Entry("assistant", "earlier answer")>>}

\* ------------------------------------------------------------------- inputs

\* The message and model properties of a request body.
Messages == {Undefined, "", "hi", NonString}
Models == {Undefined, "", "llama"}

\* What ollama.chat rejects with: error.status_code (0: none) and error.message.
OllamaErrors ==
  {[status_code |-> 401, message |-> "invalid api key"],
   [status_code |-> 0, message |-> "unauthorized"],
   [status_code |-> 0, message |-> "fetch failed"],
   [status_code |-> 0, message |-> ""]}

\* The error variable before anything is caught, and once e is.
NoError == [caught |-> FALSE, status_code |-> 0, message |-> ""]
Caught(e) == [caught |-> TRUE, status_code |-> e.status_code, message |-> e.message]

\* The replies the completion call of checkIfNeedsSearch gets in the handler:
\* it throws, or answers prose, or one of the objects.
NeedReplies ==
  {Throws, Reply(<<"x">>)}
    \cup {Reply(<<"{", b, "}">>) :
            b \in {"bSearchQ", "bNoSearch", "bSearchNoQ", "bNoSearchQ"}}

\* The replies the completion call of confirmResponseAdequacy gets: it throws,
\* or answers prose, or braces around prose, or one of the objects.
AdequacyReplies ==
  {Throws, Reply(<<"x">>), Reply(<<"{", "x", "}">>)}
    \cup {Reply(<<"{", b, "}">>) :
            b \in {"bAdequate", "bInadequateQ", "bInadequateNoQ", "bNoSearch",
                   "bAdequateButSearch"}}

\* A text of n characters, each its own position.
Text(n) == [i \in 1..n |-> i]

\* The lengths of the drafts the buffered completion returns.
DraftLens == {0, 1, chunkSize, chunkSize + 1, 2 * chunkSize, MaxDraftLen}

\* The k-th chunk the incremental completion yields: one without text, or two
\* characters that no other chunk and no draft holds.
Fragments(k) == {<<>>, <<100 + 2 * k, 101 + 2 * k>>}

\* -------------------------------------------------------------------- state

VARIABLES
  isCloudMode,        \* startup configuration
  apiKey,
  googleConfigured,   \* GOOGLE_API_KEY && GOOGLE_CSE_ID
  pc,                 \* where the handler is: the call it awaits
  message,            \* req.body
  model,
  headersSent,        \* res.headersSent
  events,             \* the events written to the response, in order
  response,           \* the JSON response sent with res.status().json()
  conn,               \* the response: open, json, ended, hung, aborted
  searchDecision,
  searchResults,
  needsConfirmation,
  fullResponse,
  retryCount,
  confirmation,
  searchQuery,
  produced,           \* the fragments the incremental completion has yielded
  error,              \* the error the catch block got
  needReply,          \* the replies the advisors' completion calls got
  adequacyReply,
  calls,              \* the calls issued to the collaborators, in order
  completed,          \* how many of them have returned or thrown
  currentDate,        \* the handler's date snapshot
  sinkGoneAt,         \* -1, or the number of events written when the caller's
                      \* connection went away
  now,                \* the wall clock, an instant
  zone,               \* the server's time zone
  other,              \* the state of the request that is not in focus
  rid,                \* which of the two requests is in focus
  apiResponse,        \* the response of the last GET /api/config or /api/models
  conversationHistory, \* req.body.conversationHistory
  provider,           \* what the search provider does with the next request
  client              \* the browser client: the Chatbot object and its page

vars ==
  <<isCloudMode, apiKey, googleConfigured, pc, message, model, headersSent,
    events, response, conn, searchDecision, searchResults, needsConfirmation,
    fullResponse, retryCount, confirmation, searchQuery, produced, error,
    needReply, adequacyReply, calls, completed, currentDate, sinkGoneAt, now,
    zone, other, rid, apiResponse, conversationHistory, provider, client>>

config == <<isCloudMode, apiKey, googleConfigured>>
\* What no step of the handler in focus changes: the clock, the caller's
\* connection, the other request, the responses of the GET endpoints.
environment ==
  <<now, zone, sinkGoneAt, other, rid, apiResponse, provider, client>>
\* req.body and the date snapshot taken when the request arrives.
request == <<message, model, currentDate, conversationHistory>>
locals ==
  <<searchDecision, searchResults, needsConfirmation, fullResponse, retryCount,
    confirmation, searchQuery>>

NoResponse == [status |-> 0, error |-> <<>>]
NoReply == [ok |-> FALSE, content |-> <<"never called">>]

\* The state of a Chatbot object and of the page elements it uses: the
\* model select, the message input and the notice the status line shows when
\* a send is refused or fails; where sendMessage is
\* (idle, fetching, reading), how many events of the stream it has handled
\* and how many of its invocations have a request under way.
ClientState(history, currentModel, selected) ==
  [conversationHistory |-> history, currentModel |-> currentModel,
   isStreaming |-> FALSE, selected |-> selected, input |-> "",
   inputDisabled |-> FALSE, notice |-> "", phase |-> "idle", sent |-> "",
   sentModel |-> "", fullResponse |-> <<>>, read |-> 0, inFlight |-> 0]

\* No browser is attached to the server.
NoClient == ClientState(<<>>, "", "")

\* No search request is pending at the provider.
NoProvider == [kind |-> "", available |-> 0]

\* No GET endpoint has answered yet.
NoApiResponse ==
  [endpoint |-> "", status |-> 0, mode |-> "", host |-> "", defaultModel |-> "",
   models |-> <<>>, error |-> <<>>,
   listing |-> [ok |-> FALSE, missing |-> FALSE, models |-> <<>>, error |-> NoError]]

\* The state of one request as a record: of the one in focus, and of one that
\* has not arrived.
Focus ==
  [pc |-> pc, message |-> message, model |-> model, headersSent |-> headersSent,
   events |-> events, response |-> response, conn |-> conn,
   searchDecision |-> searchDecision, searchResults |-> searchResults,
   needsConfirmation |-> needsConfirmation, fullResponse |-> fullResponse,
   retryCount |-> retryCount, confirmation |-> confirmation,
   searchQuery |-> searchQuery, produced |-> produced, error |-> error,
   needReply |-> needReply, adequacyReply |-> adequacyReply, calls |-> calls,
   completed |-> completed, currentDate |-> currentDate,
   sinkGoneAt |-> sinkGoneAt, conversationHistory |-> conversationHistory]

IdleRequest ==
  [pc |-> "idle", message |-> Undefined, model |-> Undefined,
   headersSent |-> FALSE, events |-> <<>>, response |-> NoResponse,
   conn |-> "open", searchDecision |-> EmptyObject, searchResults |-> Null,
   needsConfirmation |-> FALSE, fullResponse |-> <<>>, retryCount |-> 0,
   confirmation |-> EmptyObject, searchQuery |-> Undefined, produced |-> <<>>,
   error |-> NoError, needReply |-> NoReply, adequacyReply |-> NoReply,
   calls |-> <<>>, completed |-> 0, currentDate |-> NoDate, sinkGoneAt |-> -1,
   conversationHistory |-> <<>>]

Idle ==
  /\ message = Undefined
  /\ model = Undefined
  /\ headersSent = FALSE
  /\ events = <<>>
  /\ response = NoResponse
  /\ conn = "open"
  /\ searchDecision = EmptyObject
  /\ searchResults = Null
  /\ needsConfirmation = FALSE
  /\ fullResponse = <<>>
  /\ retryCount = 0
  /\ confirmation = EmptyObject
  /\ searchQuery = Undefined
  /\ produced = <<>>
  /\ error = NoError
  /\ needReply = NoReply
  /\ adequacyReply = NoReply
  /\ calls = <<>>
  /\ completed = 0
  /\ currentDate = NoDate
  /\ sinkGoneAt = -1
  /\ conversationHistory = <<>>

\* The server after startup: the configuration is fixed, no request is handled.
Init ==
  /\ isCloudMode \in BOOLEAN
  /\ apiKey \in {Undefined, "ollama_key"}
  /\ googleConfigured \in BOOLEAN
  /\ pc = "idle"
  /\ Idle
  /\ now = -1
  /\ zone = 0
  /\ other = IdleRequest
  /\ rid = 1
  /\ apiResponse = NoApiResponse
  /\ provider = NoProvider
  /\ client = NoClient

\* ------------------------------------------------------------ issuing calls

\* The messages array with the rejected draft kept as an assistant turn.
messagesWithDraft(prompt) ==
  <<SystemEntry(prompt)>> \o conversationHistory
    \o (IF fullResponse # <<>>
          THEN <<[Entry("assistant", "") EXCEPT !.draft = fullResponse]>>
        ELSE <<>>)
    \o <<Entry("user", message)>>

\* const messages = [{role: 'system', content: systemPrompt},
\*                   ...conversationHistory, {role: 'user', content: message}]
messages(prompt) ==
  <<SystemEntry(prompt)>> \o conversationHistory \o <<Entry("user", message)>>

\* ollama.chat({model, messages, stream}) as the loop issues it.
ChatCall(fn) ==
  LET prompt == systemPrompt(searchDecision, searchResults)
  IN  [Call(fn, "", prompt, currentDate) EXCEPT !.messages = messages(prompt)]

\* A call made before the events of its step are written.
IssueBeforeWrite(call) == Append(calls, [call EXCEPT !.written = Len(events)])

\* A call is made once the events of its step are written: every call of the
\* handler follows the res.write that announces it.
Issue(call) == Append(calls, [call EXCEPT !.written = Len(events')])

\* ------------------------------------------------------------ the catch block

\* statusCode and errorMessage as the catch block of /api/chat computes them.
ErrorResponse(e) ==
  IF e.status_code = 401 \/ e.message = "unauthorized"
    THEN [status |-> 401,
          error |-> <<"Authentication failed. Please check your OLLAMA_API_KEY in the .env file.">>
                      \o (IF isCloudMode /\ ~Truthy(apiKey) THEN <<" API key is missing.">>
                          ELSE IF isCloudMode /\ Truthy(apiKey)
                            THEN <<" The API key may be invalid or expired.">>
                          ELSE <<>>)]
  ELSE [status |-> 500, error |-> <<Or(e.message, "An error occurred")>>]

\* What becomes of the response when res.status(statusCode).json(body) runs
\* after the headers were sent: res.json sets a header, which throws
\* ERR_HTTP_HEADERS_SENT out of the catch block, so the handler's promise
\* rejects.  The response is left open, or the connection is torn down (by the
\* framework's error handler or with the process): no body is delivered.
AfterHeadersSent == {"hung", "aborted"}

\* catch (error) { ... res.status(statusCode).json({ error: errorMessage }) }
Catch(e) ==
  /\ error' = Caught(e)
  /\ pc' = "done"
  /\ IF headersSent
       THEN /\ conn' \in AfterHeadersSent
            /\ response' = response
       ELSE /\ conn' = "json"
            /\ response' = ErrorResponse(e)

\* res.write(done event); res.end()
Finish(written) ==
  /\ events' = written \o <<Done>>
  /\ conn' = "ended"
  /\ pc' = "done"

\* EnterLoop asking for a confirmation whenever there are no results, whatever
\* the decision said.
EnterLoopResultsOnly(decision, results) ==
  /\ needsConfirmation' = results.null
  /\ fullResponse' = <<>>
  /\ retryCount' = 0

\* EnterLoop asking for a confirmation on every request.
EnterLoopAlwaysConfirm(decision, results) ==
  /\ needsConfirmation' = TRUE
  /\ fullResponse' = <<>>
  /\ retryCount' = 0

\* Lines 364-367: the loop's variables, from the decision and the results.
EnterLoop(decision, results) ==
  /\ needsConfirmation' = (~Truthy(decision.needs_search) /\ results.null)
  /\ fullResponse' = <<>>
  /\ retryCount' = 0

\* ----------------------------------------------------------- POST /api/chat

\* Validate without the model check.
ValidateMessageOnly(msg, mdl) ==
  IF ~Truthy(msg) THEN [status |-> 400, error |-> <<"Message is required">>]
  ELSE NoResponse

\* The validation of the request body: the 400 response, or none.
Validate(msg, mdl) ==
  IF ~Truthy(msg) THEN [status |-> 400, error |-> <<"Message is required">>]
  ELSE IF ~Truthy(mdl)
    THEN [status |-> 400, error |-> <<"Model is required. Please select a model.">>]
  ELSE NoResponse

\* The handler up to its first await: validation, the stream's headers, the
\* first progress event, the call of checkIfNeedsSearch.
ChatReceive(msg, mdl, history) ==
  /\ pc = "idle"
  /\ message' = msg
  /\ model' = mdl
  /\ conversationHistory' = history
  /\ IF Validate(msg, mdl) # NoResponse
       THEN /\ response' = Validate(msg, mdl)
            /\ conn' = "json"
            /\ pc' = "done"
            /\ UNCHANGED <<currentDate, headersSent, events, error, calls>>
     ELSE IF msg = NonString
       \* message.substring is not a function: thrown before the first write
       THEN /\ currentDate' = getCurrentDate(now, zone)
            /\ Catch([status_code |-> 0,
                      message |-> "message.substring is not a function"])
            /\ UNCHANGED <<headersSent, events, calls>>
     \* checkIfNeedsSearch takes its own snapshot, in the same synchronous step
     ELSE /\ currentDate' = getCurrentDate(now, zone)
          /\ events' = <<Analyzing>>
          /\ headersSent' = TRUE
          /\ calls' = Issue(Call("checkIfNeedsSearch", "", NoPrompt,
                                         getCurrentDate(now, zone)))
          /\ pc' = "needCall"
          /\ UNCHANGED <<response, conn, error>>
  /\ UNCHANGED <<config, environment, completed, locals, produced, needReply,
                 adequacyReply>>

\* NeedReturns calling the search without awaiting it: the loop is entered
\* while the search is in flight.
NeedReturnsNoAwait(reply) ==
  /\ pc = "needCall"
  /\ completed' = completed + 1
  /\ needReply' = reply
  /\ LET decision == checkIfNeedsSearch(reply)
     IN  /\ searchDecision' = decision
         /\ EnterLoop(decision, searchResults)
         /\ pc' = "loop"
         /\ IF Truthy(decision.needs_search) /\ Truthy(decision.search_query)
              THEN /\ events' = Append(events, Searching(decision.search_query))
                   /\ calls' = Issue(Call("performWebSearch",
                                                  decision.search_query, NoPrompt, NoDate))
              ELSE UNCHANGED <<events, calls>>
  /\ UNCHANGED <<config, environment, request, headersSent, response, conn,
                 searchResults, confirmation, searchQuery, produced, error,
                 adequacyReply>>

\* checkIfNeedsSearch returns; the initial search is announced and called, or
\* the loop is entered without one.
NeedReturns(reply) ==
  /\ pc = "needCall"
  /\ completed' = completed + 1
  /\ needReply' = reply
  /\ LET decision == checkIfNeedsSearch(reply)
     IN  /\ searchDecision' = decision
         /\ IF Truthy(decision.needs_search) /\ Truthy(decision.search_query)
              THEN /\ events' = Append(events, Searching(decision.search_query))
                   /\ calls' = Issue(Call("performWebSearch",
                                                  decision.search_query, NoPrompt, NoDate))
                   /\ pc' = "initialSearch"
                   /\ UNCHANGED <<needsConfirmation, fullResponse, retryCount>>
              ELSE /\ EnterLoop(decision, searchResults)
                   /\ pc' = "loop"
                   /\ UNCHANGED <<events, calls>>
  /\ UNCHANGED <<config, environment, request, headersSent, response, conn,
                 searchResults, confirmation, searchQuery, produced, error,
                 adequacyReply>>

\* The initial performWebSearch returns or throws; the loop is entered.
InitialSearchReturns(outcome) ==
  /\ pc = "initialSearch"
  /\ completed' = completed + 1
  /\ LET r == performWebSearch(googleConfigured, searchDecision.search_query, outcome)
     IN  /\ searchResults' = (IF r.ok THEN r.results ELSE searchResults)
         /\ events' = events \o SearchEvents(r)
         /\ EnterLoop(searchDecision, searchResults')
  /\ pc' = "loop"
  /\ UNCHANGED <<config, environment, request, headersSent, response, conn,
                 searchDecision, confirmation, searchQuery, produced, error,
                 needReply, adequacyReply, calls>>

\* Generate deciding on the draft path afresh from the decision and the
\* results, without the needsConfirmation flag and the retry counter.
GenerateRecheck ==
  /\ pc = "loop"
  /\ events' = Append(events, Generating)
  /\ IF ~Truthy(searchDecision.needs_search) /\ searchResults.null
       THEN /\ calls' = Issue(ChatCall("chatBuffered"))
            /\ pc' = "draftCall"
       ELSE /\ calls' = Issue(ChatCall("chatStream"))
            /\ pc' = "streamCall"
  /\ UNCHANGED <<config, environment, completed, request, headersSent,
                 response, conn, locals, produced, error, needReply,
                 adequacyReply>>

\* The top of while (true): the system prompt, then the buffered draft call
\* (first pass without a search) or the incremental completion call.
Generate ==
  /\ pc = "loop"
  /\ events' = Append(events, Generating)
  /\ IF needsConfirmation /\ retryCount = 0
       THEN /\ calls' = Issue(ChatCall("chatBuffered"))
            /\ pc' = "draftCall"
       ELSE /\ calls' = Issue(ChatCall("chatStream"))
            /\ pc' = "streamCall"
  /\ UNCHANGED <<config, environment, completed, request, headersSent,
                 response, conn, locals, produced, error, needReply,
                 adequacyReply>>

\* DraftReturns writing the draft at once, before it is verified.
DraftReturnsStreamFirst(text) ==
  /\ pc = "draftCall"
  /\ completed' = completed + 1
  /\ fullResponse' = text
  /\ events' = events \o StreamDraft(text) \o <<Verifying>>
  /\ calls' = Issue(Call("confirmResponseAdequacy", "", NoPrompt,
                                 getCurrentDate(now, zone)))
  /\ pc' = "adequacyCall"
  /\ UNCHANGED <<config, environment, request, headersSent, response, conn,
                 searchDecision, searchResults, needsConfirmation, retryCount,
                 confirmation, searchQuery, produced, error, needReply,
                 adequacyReply>>

\* The buffered completion returns the draft; confirmResponseAdequacy is called.
DraftReturns(text) ==
  /\ pc = "draftCall"
  /\ completed' = completed + 1
  /\ fullResponse' = text
  /\ events' = Append(events, Verifying)
  /\ calls' = Issue(Call("confirmResponseAdequacy", "", NoPrompt,
                                 getCurrentDate(now, zone)))
  /\ pc' = "adequacyCall"
  /\ UNCHANGED <<config, environment, request, headersSent, response, conn,
                 searchDecision, searchResults, needsConfirmation, retryCount,
                 confirmation, searchQuery, produced, error, needReply,
                 adequacyReply>>

\* The buffered completion rejects.
DraftFails(e) ==
  /\ pc = "draftCall"
  /\ completed' = completed + 1
  /\ Catch(e)
  /\ UNCHANGED <<config, environment, request, headersSent, events, locals,
                 produced, needReply, adequacyReply, calls>>

\* The follow-up query with the need decision's query tried first.
followUpQueryNeedFirst(verdict, decision, msg) ==
  Or(Or(decision.search_query, verdict.search_query), msg)

\* confirmation.search_query || searchDecision.search_query || message
followUpQuery(verdict, decision, msg) ==
  Or(Or(verdict.search_query, decision.search_query), msg)

\* The budget counted as exhausted once the limit is reached.
budgetExhaustedAtLimit(count) == count >= maxRetries

\* if (retryCount > maxRetries), after retryCount++
budgetExhausted(count) == count > maxRetries

\* The verdict the handler acts on: confirmation.is_adequate.
IsAdequateByNeedsSearch(verdict) == ~Truthy(verdict.needs_search)
IsAdequate(verdict) == Truthy(verdict.is_adequate)

\* confirmResponseAdequacy returns: the draft is streamed in slices and the
\* request finished, or the retry search is announced and called.
AdequacyReturns(reply) ==
  /\ pc = "adequacyCall"
  /\ completed' = completed + 1
  /\ adequacyReply' = reply
  /\ LET verdict == confirmResponseAdequacy(reply)
     IN  /\ confirmation' = verdict
         /\ IF IsAdequate(verdict)
              THEN /\ Finish(events \o StreamDraft(fullResponse))
                   /\ UNCHANGED <<retryCount, searchQuery, calls>>
              ELSE /\ retryCount' = retryCount + 1
                   /\ IF budgetExhausted(retryCount')
                        THEN /\ Finish(events \o StreamDraft(fullResponse))
                             /\ UNCHANGED <<searchQuery, calls>>
                        ELSE /\ searchQuery' = followUpQuery(verdict, searchDecision,
                                                              message)
                             /\ events' = Append(events, Searching(searchQuery'))
                             /\ calls' = Issue(Call("performWebSearch", searchQuery',
                                                            NoPrompt, NoDate))
                             /\ pc' = "retrySearch"
                             /\ UNCHANGED conn
  /\ UNCHANGED <<config, environment, request, headersSent, response,
                 searchDecision, searchResults, needsConfirmation,
                 fullResponse, produced, error, needReply>>

\* RetrySearchReturns leaving the need decision as the advisor returned it.
RetrySearchReturnsKeepDecision(outcome) ==
  /\ pc = "retrySearch"
  /\ completed' = completed + 1
  /\ LET r == performWebSearch(googleConfigured, searchQuery, outcome)
     IN  /\ searchResults' = (IF r.ok THEN r.results ELSE Null)
         /\ events' = events \o SearchEvents(r)
  /\ needsConfirmation' = FALSE
  /\ pc' = "loop"
  /\ UNCHANGED <<config, environment, request, headersSent, response, conn,
                 searchDecision, fullResponse, retryCount, confirmation,
                 searchQuery, produced, error, needReply, adequacyReply, calls>>

\* RetrySearchReturns going back to the first pass: a new draft is confirmed
\* again after the search.
RetrySearchReturnsAfresh(outcome) ==
  /\ pc = "retrySearch"
  /\ completed' = completed + 1
  /\ LET r == performWebSearch(googleConfigured, searchQuery, outcome)
     IN  /\ searchResults' = (IF r.ok THEN r.results ELSE Null)
         /\ searchDecision' =
              (IF r.ok
                 THEN [searchDecision EXCEPT !.needs_search = JTrue,
                                             !.search_query = searchQuery]
               ELSE searchDecision)
         /\ events' = events \o SearchEvents(r)
  /\ needsConfirmation' = TRUE
  /\ retryCount' = 0
  /\ pc' = "loop"
  /\ UNCHANGED <<config, environment, request, headersSent, response, conn,
                 fullResponse, confirmation, searchQuery, produced,
                 error, needReply, adequacyReply, calls>>

\* The retry performWebSearch returns or throws; the loop continues without
\* another confirmation.
RetrySearchReturns(outcome) ==
  /\ pc = "retrySearch"
  /\ completed' = completed + 1
  /\ LET r == performWebSearch(googleConfigured, searchQuery, outcome)
     IN  /\ searchResults' = (IF r.ok THEN r.results ELSE Null)
         /\ searchDecision' =
              (IF r.ok
                 THEN [searchDecision EXCEPT !.needs_search = JTrue,
                                             !.search_query = searchQuery]
               ELSE searchDecision)
         /\ events' = events \o SearchEvents(r)
  /\ needsConfirmation' = FALSE
  /\ pc' = "loop"
  /\ UNCHANGED <<config, environment, request, headersSent, response, conn,
                 fullResponse, retryCount, confirmation, searchQuery, produced,
                 error, needReply, adequacyReply, calls>>

\* ollama.chat({stream: true}) resolves with the stream.
StreamOpens ==
  /\ pc = "streamCall"
  /\ pc' = "streaming"
  /\ UNCHANGED <<config, environment, completed, request, headersSent, events,
                 response, conn, locals, produced, error, needReply,
                 adequacyReply, calls>>

\* ollama.chat({stream: true}) rejects.
StreamOpenFails(e) ==
  /\ pc = "streamCall"
  /\ completed' = completed + 1
  /\ Catch(e)
  /\ UNCHANGED <<config, environment, request, headersSent, events, locals,
                 produced, needReply, adequacyReply, calls>>

\* StreamChunk writing every chunk, with or without text.
StreamChunkUnfiltered(fragment) ==
  /\ pc = "streaming"
  /\ Len(produced) < MaxFrags
  /\ produced' = Append(produced, fragment)
  /\ events' = Append(events, Content(fragment))
  /\ UNCHANGED <<config, environment, completed, request, pc, headersSent,
                 response, conn, locals, error, needReply, adequacyReply,
                 calls>>

\* The stream yields a chunk; its text, if any, is written as a content event.
StreamChunk(fragment) ==
  /\ pc = "streaming"
  /\ Len(produced) < MaxFrags
  /\ produced' = Append(produced, fragment)
  /\ events' = (IF fragment # <<>> THEN Append(events, Content(fragment)) ELSE events)
  /\ UNCHANGED <<config, environment, completed, request, pc, headersSent,
                 response, conn, locals, error, needReply, adequacyReply,
                 calls>>

\* The stream throws while it is iterated.
StreamFails(e) ==
  /\ pc = "streaming"
  /\ completed' = completed + 1
  /\ Catch(e)
  /\ UNCHANGED <<config, environment, request, headersSent, events, locals,
                 produced, needReply, adequacyReply, calls>>

\* The stream is exhausted: the loop is left and the request finished.
StreamEnds ==
  /\ pc = "streaming"
  /\ completed' = completed + 1
  /\ Finish(events)
  /\ UNCHANGED <<config, environment, request, headersSent, response, locals,
                 produced, error, needReply, adequacyReply, calls>>

Next ==
  \/ \E msg \in Messages, mdl \in Models : ChatReceive(msg, mdl, <<>>)
  \/ \E reply \in NeedReplies : NeedReturns(reply)
  \/ \E outcome \in SearchOutcomes : InitialSearchReturns(outcome)
  \/ Generate
  \/ \E n \in DraftLens : DraftReturns(Text(n))
  \/ \E e \in OllamaErrors : DraftFails(e)
  \/ \E reply \in AdequacyReplies : AdequacyReturns(reply)
  \/ \E outcome \in SearchOutcomes : RetrySearchReturns(outcome)
  \/ StreamOpens
  \/ \E e \in OllamaErrors : StreamOpenFails(e)
  \/ \E fragment \in Fragments(Len(produced) + 1) : StreamChunk(fragment)
  \/ \E e \in OllamaErrors : StreamFails(e)
  \/ StreamEnds

Spec == Init /\ [][Next]_vars

\* ---------------------------------------------- the clock and the connection

\* The wall clock passes into the next hour while the request is handled.
Tick ==
  /\ pc \notin {"idle", "done"}
  /\ now < MaxTicks - 1
  /\ now' = now + 1
  /\ UNCHANGED <<config, request, pc, headersSent, events, response, conn,
                 locals, produced, error, needReply, adequacyReply, calls,
                 completed, sinkGoneAt, zone, other, rid, apiResponse,
                 provider, client>>

NextClock ==
  \/ Next
  \/ Tick

\* The handler, the clock running.
SpecClock == Init /\ [][NextClock]_vars

\* The caller's connection goes away while the request is handled.  The handler
\* registers no listener for it and does not look at what res.write returns:
\* none of its variables changes.
ClientDisconnects ==
  /\ pc \notin {"idle", "done"}
  /\ sinkGoneAt = -1
  /\ sinkGoneAt' = Len(events)
  /\ UNCHANGED <<config, request, pc, headersSent, events, response, conn,
                 locals, produced, error, needReply, adequacyReply, calls,
                 completed, now, zone, other, rid, apiResponse,
                 provider, client>>

NextSink ==
  \/ Next
  \/ ClientDisconnects

\* The handler, the caller free to go away.
SpecSink == Init /\ [][NextSink]_vars

\* ----------------------------------------------- the advisors on their own

\* Every reply of at most MaxLen tokens, and the call throwing.
Tokens == {"{", "}", "w", "x", "[fence]", "[fence json]", "bSearchNoQ", "bAdequate"}

SeqsUpTo(n) == UNION {[1..k -> Tokens] : k \in 0..n}

AdvisorReplies == {Throws} \cup {Reply(s) : s \in SeqsUpTo(MaxLen)}

\* One reply, to be given to either advisor.
InitAdvisors ==
  /\ isCloudMode = FALSE
  /\ apiKey = Undefined
  /\ googleConfigured = FALSE
  /\ pc = "advisors"
  /\ message = Undefined
  /\ model = Undefined
  /\ headersSent = FALSE
  /\ events = <<>>
  /\ response = NoResponse
  /\ conn = "open"
  /\ searchDecision = EmptyObject
  /\ searchResults = Null
  /\ needsConfirmation = FALSE
  /\ fullResponse = <<>>
  /\ retryCount = 0
  /\ confirmation = EmptyObject
  /\ searchQuery = Undefined
  /\ produced = <<>>
  /\ error = NoError
  /\ needReply \in AdvisorReplies
  /\ adequacyReply = needReply
  /\ calls = <<>>
  /\ completed = 0
  /\ currentDate = NoDate
  /\ sinkGoneAt = -1
  /\ conversationHistory = <<>>
  /\ now = -1
  /\ zone = 0
  /\ other = IdleRequest
  /\ rid = 1
  /\ apiResponse = NoApiResponse
  /\ provider = NoProvider
  /\ client = NoClient

\* checkIfNeedsSearch applied to the reply of its completion call.
AssessNeed ==
  /\ pc = "advisors"
  /\ searchDecision' = checkIfNeedsSearch(needReply)
  /\ pc' = "assessedNeed"
  /\ UNCHANGED <<config, environment, completed, request, headersSent, events,
                 response, conn, searchResults, needsConfirmation,
                 fullResponse, retryCount, confirmation, searchQuery, produced,
                 error, needReply, adequacyReply, calls>>

\* confirmResponseAdequacy applied to the reply of its completion call.
AssessAdequacy ==
  /\ pc = "advisors"
  /\ confirmation' = confirmResponseAdequacy(adequacyReply)
  /\ pc' = "assessedAdequacy"
  /\ UNCHANGED <<config, environment, completed, request, headersSent, events,
                 response, conn, searchDecision, searchResults,
                 needsConfirmation, fullResponse, retryCount, searchQuery,
                 produced, error, needReply, adequacyReply, calls>>

NextAdvisors ==
  \/ AssessNeed
  \/ AssessAdequacy

SpecAdvisors == InitAdvisors /\ [][NextAdvisors]_vars

\* ------------------------------------------- GET /api/config and /api/models

\* process.env.OLLAMA_HOST, or the local default; isCloudMode says whether it
\* names ollama.com.
ollamaHost == IF isCloudMode THEN "https://ollama.com" ELSE "http://127.0.0.1:11434"
ModelNames == {"llama3.2", "qwen3", "mistral"}

\* What ollama.list() does: it rejects with an error, or resolves with a
\* response whose models property is missing or an array of models.
Rejects(e) == [ok |-> FALSE, missing |-> FALSE, models |-> <<>>, error |-> Caught(e)]
Listed(missing, models) ==
  [ok |-> TRUE, missing |-> missing, models |-> models, error |-> NoError]
NotListed == [ok |-> FALSE, missing |-> FALSE, models |-> <<>>, error |-> NoError]

ListOutcomes ==
  {Rejects(e) : e \in OllamaErrors}
    \cup {Listed(TRUE, <<>>)}
    \cup {Listed(FALSE, names) : names \in UNION {[1..k -> ModelNames] : k \in 0..MaxModels}}

\* defaultModel with the start-up banner's llama3.2 when nothing is listed.
defaultModelOrBanner(listing) ==
  IF isCloudMode THEN "gpt-oss:120b-cloud"
  ELSE IF listing.ok /\ ~listing.missing /\ Len(listing.models) > 0
    THEN listing.models[1]
  ELSE "llama3.2"

\* defaultModel as /api/config computes it ("null": the JSON null).
defaultModel(listing) ==
  IF isCloudMode THEN "gpt-oss:120b-cloud"
  ELSE IF listing.ok /\ ~listing.missing /\ Len(listing.models) > 0
    THEN listing.models[1]
  ELSE "null"

\* statusCode and errorMessage as the catch block of /api/models computes them.
ModelsErrorResponse(e) ==
  IF e.status_code = 401 \/ e.message = "unauthorized"
    THEN ErrorResponse(e)
  ELSE [status |-> 500, error |-> <<Or(e.message, "Failed to fetch models")>>]

\* GET /api/config: in local mode ollama.list() is called and does as
\* `outcome` says; in cloud mode it is not called.
ConfigRequest(outcome) ==
  /\ pc = "idle"
  /\ LET listing == IF isCloudMode THEN NotListed ELSE outcome
     IN  apiResponse' =
           [endpoint |-> "config", status |-> 200,
            mode |-> IF isCloudMode THEN "cloud" ELSE "local",
            host |-> ollamaHost, defaultModel |-> defaultModel(listing),
            models |-> <<>>, error |-> <<>>, listing |-> listing]
  /\ UNCHANGED <<config, request, pc, headersSent, events, response, conn,
                 locals, produced, error, needReply, adequacyReply, calls,
                 completed, sinkGoneAt, now, zone, other, rid, provider,
                 client>>

\* GET /api/models: ollama.list() does as `outcome` says.
ModelsRequest(outcome) ==
  /\ pc = "idle"
  /\ apiResponse' =
       IF outcome.ok
         THEN [endpoint |-> "models", status |-> 200, mode |-> "", host |-> "",
               defaultModel |-> "",
               models |-> IF outcome.missing THEN <<>> ELSE outcome.models,
               error |-> <<>>, listing |-> outcome]
       ELSE [endpoint |-> "models", status |-> ModelsErrorResponse(outcome.error).status,
             mode |-> "", host |-> "", defaultModel |-> "", models |-> <<>>,
             error |-> ModelsErrorResponse(outcome.error).error, listing |-> outcome]
  /\ UNCHANGED <<config, request, pc, headersSent, events, response, conn,
                 locals, produced, error, needReply, adequacyReply, calls,
                 completed, sinkGoneAt, now, zone, other, rid, provider,
                 client>>

NextApi ==
  \/ \E outcome \in ListOutcomes : ConfigRequest(outcome)
  \/ \E outcome \in ListOutcomes : ModelsRequest(outcome)

SpecApi == Init /\ [][NextApi]_vars

\* ------------------------------------------------- two requests at a time

\* The event loop turns to the other request: its locals and its response
\* come into focus, those of the request that ran go to `other`; retryCount
\* alone stays, as if it were declared outside the handler.
SwitchSharedCounter ==
  /\ other' = Focus
  /\ rid' = 3 - rid
  /\ pc' = other.pc
  /\ message' = other.message
  /\ model' = other.model
  /\ headersSent' = other.headersSent
  /\ events' = other.events
  /\ response' = other.response
  /\ conn' = other.conn
  /\ searchDecision' = other.searchDecision
  /\ searchResults' = other.searchResults
  /\ needsConfirmation' = other.needsConfirmation
  /\ fullResponse' = other.fullResponse
  /\ retryCount' = retryCount
  /\ confirmation' = other.confirmation
  /\ searchQuery' = other.searchQuery
  /\ produced' = other.produced
  /\ error' = other.error
  /\ needReply' = other.needReply
  /\ adequacyReply' = other.adequacyReply
  /\ calls' = other.calls
  /\ completed' = other.completed
  /\ currentDate' = other.currentDate
  /\ sinkGoneAt' = other.sinkGoneAt
  /\ conversationHistory' = other.conversationHistory
  /\ UNCHANGED <<config, now, zone, apiResponse, provider, client>>

\* The event loop turns to the other request.  Every variable the handler
\* declares (lines 311-437) and its req and res belong to one invocation; the
\* module's variables (lines 10-52) are the configuration, which stays.
Switch ==
  /\ other' = Focus
  /\ rid' = 3 - rid
  /\ pc' = other.pc
  /\ message' = other.message
  /\ model' = other.model
  /\ headersSent' = other.headersSent
  /\ events' = other.events
  /\ response' = other.response
  /\ conn' = other.conn
  /\ searchDecision' = other.searchDecision
  /\ searchResults' = other.searchResults
  /\ needsConfirmation' = other.needsConfirmation
  /\ fullResponse' = other.fullResponse
  /\ retryCount' = other.retryCount
  /\ confirmation' = other.confirmation
  /\ searchQuery' = other.searchQuery
  /\ produced' = other.produced
  /\ error' = other.error
  /\ needReply' = other.needReply
  /\ adequacyReply' = other.adequacyReply
  /\ calls' = other.calls
  /\ completed' = other.completed
  /\ currentDate' = other.currentDate
  /\ sinkGoneAt' = other.sinkGoneAt
  /\ conversationHistory' = other.conversationHistory
  /\ UNCHANGED <<config, now, zone, apiResponse, provider, client>>

\* The message of each of the two requests, and the inputs their steps draw.
MessageOf(r) == IF r = 1 THEN "hi" ELSE "ho"
TwoNeedReplies == {Reply(<<"{", b, "}">>) : b \in {"bNoSearch", "bSearchQ", "bSearchNoQ"}}
TwoAdequacyReplies ==
  {Reply(<<"{", b, "}">>) : b \in {"bAdequate", "bInadequateQ", "bInadequateNoQ"}}
TwoSearchOutcomes == {[kind |-> "fetchThrows", n |-> 0], [kind |-> "items", n |-> 1]}
TwoError == [status_code |-> 0, message |-> "fetch failed"]

\* A step of the request in focus, or the event loop turning to the other.
NextTwo ==
  \/ ChatReceive(MessageOf(rid), "llama", <<>>)
  \/ \E reply \in TwoNeedReplies : NeedReturns(reply)
  \/ \E outcome \in TwoSearchOutcomes : InitialSearchReturns(outcome)
  \/ Generate
  \/ DraftReturns(Text(rid))
  \/ DraftFails(TwoError)
  \/ \E reply \in TwoAdequacyReplies : AdequacyReturns(reply)
  \/ \E outcome \in TwoSearchOutcomes : RetrySearchReturns(outcome)
  \/ StreamOpens
  \/ StreamOpenFails(TwoError)
  \/ StreamChunk(<<100 + rid>>)
  \/ StreamFails(TwoError)
  \/ StreamEnds
  \/ Switch

SpecTwo == Init /\ [][NextTwo]_vars

\* ------------------------------------------------ requests with a history

\* The request body may carry the conversation so far.
NextHistory ==
  \/ \E h \in Histories : ChatReceive("hi", "llama", h)
  \/ \E reply \in NeedReplies : NeedReturns(reply)
  \/ \E outcome \in SearchOutcomes : InitialSearchReturns(outcome)
  \/ Generate
  \/ \E n \in {0, chunkSize + 1} : DraftReturns(Text(n))
  \/ \E e \in OllamaErrors : DraftFails(e)
  \/ \E reply \in AdequacyReplies : AdequacyReturns(reply)
  \/ \E outcome \in SearchOutcomes : RetrySearchReturns(outcome)
  \/ StreamOpens
  \/ \E e \in OllamaErrors : StreamOpenFails(e)
  \/ \E fragment \in Fragments(Len(produced) + 1) : StreamChunk(fragment)
  \/ \E e \in OllamaErrors : StreamFails(e)
  \/ StreamEnds

SpecHistory == Init /\ [][NextHistory]_vars

\* ------------------------------------------------- getCurrentDate on its own

\* Any instant of the window, on a server in any time zone.
InitDate ==
  /\ isCloudMode = FALSE
  /\ apiKey = Undefined
  /\ googleConfigured = FALSE
  /\ pc = "clock"
  /\ Idle
  /\ now \in Instants
  /\ zone \in Zones
  /\ other = IdleRequest
  /\ rid = 1
  /\ apiResponse = NoApiResponse
  /\ provider = NoProvider
  /\ client = NoClient

\* getCurrentDate() is called.
ReadDate ==
  /\ pc = "clock"
  /\ currentDate' = getCurrentDate(now, zone)
  /\ pc' = "dated"
  /\ UNCHANGED <<config, environment, message, model, conversationHistory,
                 headersSent, events, response, conn, locals, produced, error,
                 needReply, adequacyReply, calls, completed>>

NextDate == ReadDate

SpecDate == InitDate /\ [][NextDate]_vars

\* ------------------------------------------------ performWebSearch on its own

\* The provider asked for any number of results answers with all it has.
ProviderAnswerAll(p) ==
  IF p.kind = "items" THEN [kind |-> "items", n |-> p.available]
  ELSE [kind |-> p.kind, n |-> 0]

\* What the provider, in the state p, does with the request
\* ...customsearch/v1?key=..&cx=..&q=..&num=5: it fails, or answers with the
\* results it has for the query, at most num of them.
ProviderAnswer(p) ==
  IF p.kind = "items" THEN [kind |-> "items", n |-> Min(p.available, num)]
  ELSE [kind |-> p.kind, n |-> 0]

ProviderStates ==
  {[kind |-> k, available |-> 0] : k \in {"fetchThrows", "notOk", "errorPayload"}}
    \cup {[kind |-> "items", available |-> a] : a \in 0..MaxAvailable}

\* Any configuration, any query, the provider in any state.
InitSearch ==
  /\ isCloudMode \in BOOLEAN
  /\ apiKey \in {Undefined, "ollama_key"}
  /\ googleConfigured \in BOOLEAN
  /\ pc = "search"
  /\ message = Undefined
  /\ model = Undefined
  /\ headersSent = FALSE
  /\ events = <<>>
  /\ response = NoResponse
  /\ conn = "open"
  /\ searchDecision = EmptyObject
  /\ searchResults = Null
  /\ needsConfirmation = FALSE
  /\ fullResponse = <<>>
  /\ retryCount = 0
  /\ confirmation = EmptyObject
  /\ searchQuery \in {"q1", "q2"}
  /\ produced = <<>>
  /\ error = NoError
  /\ needReply = NoReply
  /\ adequacyReply = NoReply
  /\ calls = <<>>
  /\ completed = 0
  /\ currentDate = NoDate
  /\ sinkGoneAt = -1
  /\ conversationHistory = <<>>
  /\ now = -1
  /\ zone = 0
  /\ other = IdleRequest
  /\ rid = 1
  /\ apiResponse = NoApiResponse
  /\ provider \in ProviderStates
  /\ client = NoClient

\* performWebSearch(searchQuery) runs: it returns the results, or throws; the
\* request it sends, if any, is recorded.
SearchCall ==
  /\ pc = "search"
  /\ LET r == performWebSearch(googleConfigured, searchQuery, ProviderAnswer(provider))
     IN  /\ searchResults' = r.results
         /\ error' = (IF r.ok THEN NoError
                      ELSE Caught([status_code |-> 0, message |-> r.error]))
         /\ calls' = (IF r.fetched
                       THEN <<Call("fetch", searchQuery, NoPrompt, NoDate)>>
                      ELSE <<>>)
  /\ pc' = "searched"
  /\ UNCHANGED <<config, environment, request, headersSent, events, response,
                 conn, searchDecision, needsConfirmation, fullResponse,
                 retryCount, confirmation, searchQuery, produced, needReply,
                 adequacyReply, completed>>

NextSearch == SearchCall

SpecSearch == InitSearch /\ [][NextSearch]_vars

\* -------------------------------------------------------- the browser client

\* What the message input may hold: nothing, white space, a question.
Inputs == {"", " ", "hi"}

\* String.prototype.trim on those values.
TrimInput(v) == IF v = " " THEN "" ELSE v

\* The options the model select can show.
ModelChoices == {"llama3.2", "qwen3"}

\* { role: 'assistant', content: fullResponse }: the text received, a token
\* sequence, is held in the entry's draft field.
AssistantEntry(text) == [Entry("assistant", "") EXCEPT !.draft = text]

\* The handler's variables and the rest of the server's surroundings, which no
\* step of the page changes by itself.
handler ==
  <<pc, request, headersSent, events, response, conn, locals, produced, error,
    needReply, adequacyReply, calls, completed>>
surroundings == <<now, zone, sinkGoneAt, other, rid, apiResponse, provider>>

\* The server has not yet begun to handle the request that fetch sends.
NewInvocation ==
  /\ pc' = "idle"
  /\ message' = Undefined
  /\ model' = Undefined
  /\ headersSent' = FALSE
  /\ events' = <<>>
  /\ response' = NoResponse
  /\ conn' = "open"
  /\ searchDecision' = EmptyObject
  /\ searchResults' = Null
  /\ needsConfirmation' = FALSE
  /\ fullResponse' = <<>>
  /\ retryCount' = 0
  /\ confirmation' = EmptyObject
  /\ searchQuery' = Undefined
  /\ produced' = <<>>
  /\ error' = NoError
  /\ needReply' = NoReply
  /\ adequacyReply' = NoReply
  /\ calls' = <<>>
  /\ completed' = 0
  /\ currentDate' = NoDate
  /\ conversationHistory' = <<>>

\* new Chatbot(): no history, the model 'llama3.2', not streaming; the select
\* of the page shows a placeholder without a value, or an option.
InitClient ==
  /\ isCloudMode = FALSE
  /\ apiKey = Undefined
  /\ googleConfigured = TRUE
  /\ pc = "idle"
  /\ Idle
  /\ now = -1
  /\ zone = 0
  /\ other = IdleRequest
  /\ rid = 1
  /\ apiResponse = NoApiResponse
  /\ provider = NoProvider
  /\ client \in {ClientState(<<>>, "llama3.2", selected) : selected \in {"", "llama3.2"}}

\* The value of the message input changes.
Type(text) ==
  /\ text # client.input
  /\ client' = [client EXCEPT !.input = text]
  /\ UNCHANGED <<config, handler, surroundings>>

\* The change listener of the model select.
SelectModel(name) ==
  /\ client' = [client EXCEPT !.currentModel = name, !.selected = name]
  /\ UNCHANGED <<config, handler, surroundings>>

\* loadModels() after its fetch of /api/models: the list holds models and one
\* of them ends up selected and current, or the list is empty or the fetch
\* failed and both the select and currentModel are cleared.
LoadModelsReturns(outcome) ==
  /\ client' =
       (IF outcome \in ModelChoices
          THEN [client EXCEPT !.currentModel = outcome, !.selected = outcome]
        ELSE [client EXCEPT !.currentModel = "", !.selected = ""])
  /\ UNCHANGED <<config, handler, surroundings>>

\* sendMessage without the isStreaming test.
SendMessageWhileStreaming ==
  /\ Len(client.conversationHistory) <= MaxHistory
  /\ LET msg == TrimInput(client.input)
     IN  IF msg = ""
           THEN UNCHANGED vars
         ELSE IF client.currentModel = "" \/ client.selected = ""
           THEN /\ client' = [client EXCEPT !.notice = "Please select a model first."]
                /\ UNCHANGED <<config, handler, surroundings>>
         ELSE /\ client' = [client EXCEPT !.input = "",
                                          !.isStreaming = TRUE,
                                          !.inputDisabled = TRUE,
                                          !.notice = "",
                                          !.currentModel = client.selected,
                                          !.sent = msg,
                                          !.sentModel = client.selected,
                                          !.phase = "fetching",
                                          !.fullResponse = <<>>,
                                          !.read = 0,
                                          !.inFlight = @ + 1]
              /\ NewInvocation
              /\ UNCHANGED <<config, surroundings>>

\* sendMessage() up to its await fetch('/api/chat', ...): the guards, the
\* input cleared and disabled, the request sent with the selected model and
\* the history.
SendMessage ==
  /\ Len(client.conversationHistory) <= MaxHistory
  /\ LET msg == TrimInput(client.input)
     IN  IF msg = "" \/ client.isStreaming
           THEN UNCHANGED vars
         ELSE IF client.currentModel = "" \/ client.selected = ""
           THEN /\ client' = [client EXCEPT !.notice = "Please select a model first."]
                /\ UNCHANGED <<config, handler, surroundings>>
         ELSE /\ client' = [client EXCEPT !.input = "",
                                          !.isStreaming = TRUE,
                                          !.inputDisabled = TRUE,
                                          !.notice = "",
                                          !.currentModel = client.selected,
                                          !.sent = msg,
                                          !.sentModel = client.selected,
                                          !.phase = "fetching",
                                          !.fullResponse = <<>>,
                                          !.read = 0,
                                          !.inFlight = @ + 1]
              /\ NewInvocation
              /\ UNCHANGED <<config, surroundings>>

\* finally { this.setStreaming(false) }
Finally(c) ==
  [c EXCEPT !.isStreaming = FALSE, !.inputDisabled = FALSE, !.phase = "idle",
            !.inFlight = @ - 1]

\* CatchFinally keeping the question of the failed request in the history.
CatchFinallyRecording(c) ==
  Finally([c EXCEPT !.notice = "Error",
                    !.conversationHistory = @ \o <<Entry("user", c.sent)>>])

\* catch (error) { addMessage('assistant', errorMsg); setStatus('Error: ...') }
\* and then finally.
CatchFinally(c) == Finally([c EXCEPT !.notice = "Error"])

\* The request gets to the handler with the body the client sent.
ClientRequestArrives ==
  /\ client.phase = "fetching"
  /\ ChatReceive(client.sent, client.sentModel, client.conversationHistory)

\* The request is answered with an error status before the handler runs (the
\* body parser refusing the body), or fetch rejects: no stream is opened.
ClientRequestRefused(answered) ==
  /\ client.phase = "fetching"
  /\ pc = "idle"
  /\ pc' = "done"
  /\ conn' = (IF answered THEN "json" ELSE "aborted")
  /\ response' = (IF answered THEN [status |-> 413, error |-> <<"request entity too large">>]
                  ELSE response)
  /\ UNCHANGED <<config, environment, request, headersSent, events, locals,
                 produced, error, needReply, adequacyReply, calls, completed>>

\* await fetch(...) settles: it throws, or the status is not ok and the client
\* throws, or the stream is there to be read.
ClientFetchSettles ==
  /\ client.phase = "fetching"
  /\ pc # "idle"
  /\ headersSent \/ conn \in {"json", "aborted"}
  /\ client' = (IF headersSent THEN [client EXCEPT !.phase = "reading"]
                ELSE CatchFinally(client))
  /\ UNCHANGED <<config, handler, surroundings>>

\* line.startsWith('data: ') and JSON.parse(line.slice(6))
ParseLine(frame) == IF frame.prefix = "data: " THEN frame.json ELSE Done

\* One line of the stream is handled: a done event adds the exchange to the
\* history, content is appended to the response, a status event only changes
\* what is shown.
ClientRead ==
  /\ client.phase = "reading"
  /\ client.read < Len(events)
  /\ LET data == ParseLine(Frame(events[client.read + 1]))
         c == [client EXCEPT !.read = @ + 1]
     IN  client' =
           (IF data.done
              THEN [c EXCEPT !.conversationHistory =
                               @ \o <<Entry("user", c.sent),
                                      AssistantEntry(c.fullResponse)>>]
            ELSE IF data.content # <<>>
              THEN [c EXCEPT !.fullResponse = @ \o data.content]
            ELSE c)
  /\ UNCHANGED <<config, handler, surroundings>>

\* reader.read() reports the end of the body: the loop is left.
ClientStreamEnds ==
  /\ client.phase = "reading"
  /\ client.read = Len(events)
  /\ conn = "ended"
  /\ client' = Finally(client)
  /\ UNCHANGED <<config, handler, surroundings>>

\* reader.read() rejects because the connection was torn down.
ClientStreamAborts ==
  /\ client.phase = "reading"
  /\ conn = "aborted"
  /\ client' = CatchFinally(client)
  /\ UNCHANGED <<config, handler, surroundings>>

\* What the page does, and what the user does with it.
ClientStep ==
  \/ ClientFetchSettles
  \/ ClientRead
  \/ ClientStreamEnds
  \/ ClientStreamAborts

UserStep ==
  \/ \E text \in Inputs : Type(text)
  \/ \E name \in ModelChoices : SelectModel(name)
  \/ \E outcome \in ModelChoices \cup {"empty", "failed"} : LoadModelsReturns(outcome)
  \/ SendMessage

\* The handler serving the client's request, its collaborators answering.
ServerStep ==
  \/ ClientRequestArrives
  \/ \E answered \in BOOLEAN : ClientRequestRefused(answered)
  \/ \E reply \in {Reply(<<"{", "bNoSearch", "}">>), Reply(<<"{", "bSearchQ", "}">>)} :
       NeedReturns(reply)
  \/ \E outcome \in {[kind |-> "fetchThrows", n |-> 0], [kind |-> "items", n |-> 1]} :
       InitialSearchReturns(outcome)
  \/ Generate
  \/ DraftReturns(Text(chunkSize + 1))
  \/ DraftFails([status_code |-> 0, message |-> "fetch failed"])
  \/ \E reply \in {Reply(<<"{", "bAdequate", "}">>), Reply(<<"{", "bInadequateQ", "}">>)} :
       AdequacyReturns(reply)
  \/ RetrySearchReturns([kind |-> "items", n |-> 1])
  \/ StreamOpens
  \/ StreamOpenFails([status_code |-> 0, message |-> "fetch failed"])
  \/ \E fragment \in Fragments(Len(produced) + 1) : StreamChunk(fragment)
  \/ StreamFails([status_code |-> 0, message |-> "fetch failed"])
  \/ StreamEnds

NextClient ==
  \/ UserStep
  \/ ClientStep
  \/ ServerStep

SpecClient == InitClient /\ [][NextClient]_vars

\* A user who only writes questions and sends them.  The event loop runs
\* every callback that is ready, and every call the handler awaits settles:
\* the page and the server keep taking their steps.  The user is under no
\* obligation.
NextClientLive ==
  \/ Type("hi")
  \/ SendMessage
  \/ ClientStep
  \/ ServerStep

SpecClientLive ==
  InitClient /\ [][NextClientLive]_vars /\ WF_vars(ClientStep) /\ WF_vars(ServerStep)

\* ------------------------------------------------- vocabulary of the claims

IsContent(e) == e.keys = {"content", "done"} /\ ~e.done
IsProgress(e) == "type" \in e.keys
IsError(e) == IsProgress(e) /\ e.type = "error"

ContentEvents == SelectSeq(events, IsContent)
DoneEvents == SelectSeq(events, LAMBDA e : e = Done)
ErrorEvents == SelectSeq(events, IsError)

RECURSIVE Concat(_)
Concat(texts) == IF texts = <<>> THEN <<>> ELSE Head(texts) \o Concat(Tail(texts))

\* The text of the content events, concatenated in emission order.
ContentText == Concat([i \in 1..Len(ContentEvents) |-> ContentEvents[i].content])

CallsTo(fn) == SelectSeq(calls, LAMBDA c : c.fn = fn)
Called(fn) == CallsTo(fn) # <<>>
LastCall == calls[Len(calls)]

\* A request that passed validation, with a message of the required type.
ValidRequest == message = "hi" /\ Truthy(model)

\* The handler has returned (or thrown): nothing more is written.
Returned == pc = "done"

\* A reply holds a Decision: somewhere in it, white space aside, stands one
\* JSON object with a member list.
HoldsDecision(reply) ==
  /\ reply.ok
  /\ LET t == SelectSeq(reply.content, LAMBDA c : c # "w")
     IN  \E i \in 1..(Len(t) - 2) : t[i] = "{" /\ t[i + 1] \in Bodies /\ t[i + 2] = "}"

\* ------------------------------------------------------------------- claims

\* C1: every request that passed validation has, once the handler is through,
\* exactly one Done event in its stream, and it is the last event written.
C1_ExactlyOneDoneLast ==
  (Returned /\ ValidRequest) =>
    (Len(DoneEvents) = 1 /\ events[Len(events)] = Done)

\* C2: when the incremental completion fails after a Content event was
\* written, the stream ends with an Error event, then Done, and is closed.
C2_StreamFailureErrorThenDone ==
  (Returned /\ error.caught /\ ValidRequest /\ LastCall.fn = "chatStream"
     /\ ContentEvents # <<>>) =>
    (/\ conn = "ended"
     /\ Len(events) >= 2
     /\ IsError(events[Len(events) - 1])
     /\ events[Len(events)] = Done)

\* C3: when a completion call of the handler fails before any Content event,
\* the caller gets one error response: 401 with the authentication message for
\* a 401 or 'unauthorized' failure, 500 with a message otherwise.
C3_EarlyFailureErrorResponse ==
  (Returned /\ error.caught /\ ValidRequest
     /\ LastCall.fn \in {"chatBuffered", "chatStream"} /\ ContentEvents = <<>>) =>
    (/\ conn = "json"
     /\ response.error # <<>>
     /\ IF error.status_code = 401 \/ error.message = "unauthorized"
          THEN /\ response.status = 401
               /\ Head(response.error)
                    = "Authentication failed. Please check your OLLAMA_API_KEY in the .env file."
          ELSE response.status = 500)

\* C4: a request whose message or model is missing or empty is answered 400;
\* no stream is opened and no completion or search call is made.
C4_InvalidRequestRejected ==
  (pc # "idle" /\ (message \in {Undefined, ""} \/ model \in {Undefined, ""})) =>
    (/\ Returned
     /\ conn = "json"
     /\ response.status = 400
     /\ ~headersSent
     /\ events = <<>>
     /\ calls = <<>>)

C4_Witness ==
  Returned /\ message = "hi" /\ model = "" /\ response.status = 400

\* The calls to fn issued after confirmResponseAdequacy was called.
AfterAdequacy(fn) ==
  {i \in 1..Len(calls) :
     calls[i].fn = fn /\ \E j \in 1..(i - 1) : calls[j].fn = "confirmResponseAdequacy"}

\* C5: in one request confirmResponseAdequacy is called at most once, and at
\* most one search and one regeneration follow it (and no second draft).
C5_RetryBudgetOnce ==
  /\ Len(CallsTo("confirmResponseAdequacy")) <= 1
  /\ Cardinality(AfterAdequacy("performWebSearch")) <= 1
  /\ Cardinality(AfterAdequacy("chatStream")) <= 1
  /\ AfterAdequacy("chatBuffered") = {}

C5_Witness ==
  /\ Returned
  /\ conn = "ended"
  /\ Cardinality(AfterAdequacy("performWebSearch")) = 1
  /\ Cardinality(AfterAdequacy("chatStream")) = 1

\* C6: the Content events of a completed request spell either the fragments of
\* the incremental completion, in order, or the draft, cut into slices of
\* chunkSize characters (the last one shorter, never empty); never both.
C6_ContentIsStreamOrDraft ==
  (Returned /\ conn = "ended") =>
    IF Called("chatStream")
      THEN ContentText = Concat(produced)
    ELSE /\ ContentText = fullResponse
         /\ \A i \in 1..Len(ContentEvents) :
              /\ Len(ContentEvents[i].content) >= 1
              /\ Len(ContentEvents[i].content) <= chunkSize
              /\ i < Len(ContentEvents) => Len(ContentEvents[i].content) = chunkSize

C6_Witness ==
  /\ Returned
  /\ conn = "ended"
  /\ ~Called("chatStream")
  /\ Len(ContentEvents) = 3
  /\ Len(fullResponse) > 2 * chunkSize

\* needsSearch is true exactly when searchQuery is non-empty.
DecisionInvariant(d) == (d.needs_search = JTrue) <=> (d.search_query \notin {Undefined, ""})

\* C7: every Decision either advisor returns, for any model output, has
\* needsSearch true only with a non-empty searchQuery, and the converse.
C7_DecisionInvariant ==
  /\ pc = "assessedNeed" => DecisionInvariant(searchDecision)
  /\ pc = "assessedAdequacy" => DecisionInvariant(confirmation)

\* C8: when the adequacy advisor's completion call throws or its output holds
\* no Decision, the draft is treated as adequate: it is emitted, the request
\* ends, and no search or regeneration follows.
C8_AdequacyFailsSoft ==
  (adequacyReply # NoReply /\ ~HoldsDecision(adequacyReply)) =>
    (/\ Truthy(confirmation.is_adequate)
     /\ Returned
     /\ conn = "ended"
     /\ ContentText = fullResponse
     /\ ~Called("performWebSearch")
     /\ ~Called("chatStream"))

\* C9: when the need advisor's completion call throws or its output holds no
\* Decision, checkIfNeedsSearch returns needsSearch false, an empty
\* searchQuery and a reasoning string.
C9_NeedFailsSoft ==
  (pc = "assessedNeed" /\ ~HoldsDecision(needReply)) =>
    (/\ searchDecision.needs_search = JFalse
     /\ searchDecision.search_query = ""
     /\ searchDecision.reasoning # Undefined)

\* C10: a request in which a search failed (a Progress event of type error was
\* written) goes on to generate without search results and ends in Done.
C10_SearchFailureNotTerminal ==
  (Returned /\ ErrorEvents # <<>>) =>
    (/\ LastCall.fn = "chatStream"
     /\ LastCall.prompt.results = <<>>
     /\ events[Len(events)] = Done)

\* What the advisors answered in this request.
NeedDecision == checkIfNeedsSearch(needReply)
Verdict == confirmResponseAdequacy(adequacyReply)
NeedAsked == needReply # NoReply
AdequacyAsked == adequacyReply # NoReply
NeedSaysNoSearch == NeedAsked /\ ~Truthy(NeedDecision.needs_search)

\* Where in the stream the events with property P stand.
Positions(P(_)) == {i \in 1..Len(events) : P(events[i])}
Announcements(q) == Positions(LAMBDA e : e = Searching(q))
SearchProgress == Positions(LAMBDA e : IsProgress(e) /\ e.type = "search")

\* C11: when the need advisor says no search and the adequacy advisor judges
\* the draft inadequate with query q2, the finished request's stream holds
\* exactly one announcement of a search for q2, after it the Content events of
\* the incremental completion, and Done last; the adequacy advisor is called
\* once only.
C11_InadequateSearchRegenerate ==
  (Returned /\ NeedSaysNoSearch /\ AdequacyAsked
     /\ ~Truthy(Verdict.is_adequate) /\ Verdict.search_query = "q2") =>
    (/\ Cardinality(Announcements("q2")) = 1
     /\ \A i \in Announcements("q2") : \A j \in Positions(IsContent) : i < j
     /\ LastCall.fn = "chatStream"
     /\ ContentText = Concat(produced)
     /\ events[Len(events)] = Done
     /\ Len(CallsTo("confirmResponseAdequacy")) = 1)

\* C12: when the need advisor returns needsSearch true with the query q1, the
\* search is called once, with q1, announced once before any of its outcomes
\* is reported; the answer comes from one incremental completion whose prompt
\* carries what the search returned; no draft is generated and the adequacy
\* advisor is not called.
C12_SearchFirstStreams ==
  (NeedAsked /\ NeedDecision.needs_search = JTrue /\ NeedDecision.search_query = "q1") =>
    (/\ Len(CallsTo("performWebSearch")) = 1
     /\ CallsTo("performWebSearch")[1].query = "q1"
     /\ Announcements("q1") = {2}
     /\ SearchProgress \subseteq {2, 3}
     /\ ~Called("chatBuffered")
     /\ ~Called("confirmResponseAdequacy")
     /\ Len(CallsTo("chatStream")) <= 1
     /\ Called("chatStream") =>
          LET prompt == LastCall.prompt
          IN  /\ LastCall.fn = "chatStream"
              /\ prompt.results = searchResults.items
              /\ \A i \in 1..Len(prompt.results) : prompt.results[i].query = "q1"
              /\ IF prompt.results # <<>> THEN prompt.label = "q1" ELSE prompt.note
     /\ (Returned /\ conn = "ended") => ContentText = Concat(produced))

C12_Witness ==
  /\ Returned
  /\ conn = "ended"
  /\ NeedAsked
  /\ NeedDecision.search_query = "q1"
  /\ Len(LastCall.prompt.results) = MaxItems
  /\ ContentEvents # <<>>

\* C13: when the need advisor says no search and the adequacy advisor judges
\* the draft adequate, the request is finished: its Content events spell the
\* draft, one Done is last, no Progress event of type search was written and
\* no search was called.
C13_AdequateDraftStreamed ==
  (NeedSaysNoSearch /\ AdequacyAsked /\ Truthy(Verdict.is_adequate)) =>
    (/\ Returned
     /\ conn = "ended"
     /\ ContentText = fullResponse
     /\ Len(DoneEvents) = 1
     /\ events[Len(events)] = Done
     /\ SearchProgress = {}
     /\ ~Called("performWebSearch")
     /\ ~Called("chatStream"))

C13_Witness ==
  /\ Returned
  /\ NeedSaysNoSearch
  /\ AdequacyAsked
  /\ Verdict.is_adequate = JTrue
  /\ Verdict.needs_search = JTrue
  /\ Len(fullResponse) > chunkSize
  /\ Len(ContentEvents) = 2

\* C14: when the call after the need assessment is not a search, it is the
\* buffered draft call, and no Content event is written before the adequacy
\* advisor has been called.
C14_NoSearchMeansDraftFirst ==
  (Len(calls) >= 2 /\ calls[2].fn # "performWebSearch") =>
    (/\ calls[2].fn = "chatBuffered"
     /\ ContentEvents # <<>> => Called("confirmResponseAdequacy"))

\* The date snapshots the prompts of the request's calls carry.
PromptDates == {calls[i].date : i \in 1..Len(calls)} \ {NoDate}

\* C15: the prompts of one request (need assessment, adequacy, answer) all
\* carry the same date snapshot, though the clock advances meanwhile.
C15_OneDateSnapshot == Cardinality(PromptDates) <= 1

\* C17: once the caller's connection is gone the handler writes no further
\* event to it (and so consumes no further fragment of the incremental
\* completion into a Content event).
C17_NoWriteAfterSinkGone == sinkGoneAt # -1 => Len(events) = sinkGoneAt

\* C16: every DateContext getCurrentDate returns has currentYear equal to the
\* year of its isoDate, and previousYear one less than currentYear.
C16_YearsAgree ==
  pc = "dated" =>
    (/\ currentDate.currentYear = currentDate.iso.year
     /\ currentDate.previousYear = currentDate.currentYear - 1)

\* The text of the content events among evs, concatenated.
TextOf(evs) ==
  LET c == SelectSeq(evs, IsContent)
  IN  Concat([i \in 1..Len(c) |-> c[i].content])

\* The queries request r has searched for.
QueriesOf(r) ==
  {r.calls[i].query : i \in {j \in 1..Len(r.calls) : r.calls[j].fn = "performWebSearch"}}

\* Everything request r (the id-th) holds comes from its own message, its own
\* advisors' answers, its own searches and its own completions.
Own(r, id) ==
  LET decision == checkIfNeedsSearch(r.needReply)
      verdict == confirmResponseAdequacy(r.adequacyReply)
  IN  /\ r.message \in {Undefined, MessageOf(id)}
      /\ r.retryCount
           = (IF r.adequacyReply # NoReply /\ ~Truthy(verdict.is_adequate) THEN 1 ELSE 0)
      /\ r.needReply # NoReply =>
           r.searchDecision
             \in {decision, [decision EXCEPT !.needs_search = JTrue,
                                             !.search_query = r.searchQuery]}
      /\ QueriesOf(r) \subseteq {"q1", "q2", MessageOf(id)}
      /\ \A i \in 1..Len(r.searchResults.items) :
           r.searchResults.items[i].query \in QueriesOf(r)
      /\ \A i \in 1..Len(r.calls) : \A j \in 1..Len(r.calls[i].prompt.results) :
           r.calls[i].prompt.results[j].query \in QueriesOf(r)
      /\ \A i \in 1..Len(r.events) :
           r.events[i].message.query \in {""} \cup QueriesOf(r)
      /\ r.fullResponse \in {<<>>, Text(id)}
      /\ \A i \in 1..Len(r.produced) : r.produced[i] = <<100 + id>>
      /\ TextOf(r.events) \in {<<>>, r.fullResponse, Concat(r.produced)}

\* A step of the request in focus leaves the other request alone; a turn of
\* the event loop exchanges the two and changes neither.
FocusStep == other' = other /\ rid' = rid
Turn == other' = Focus /\ Focus' = other /\ rid' = 3 - rid

\* C18: in every interleaving of two requests, what each request holds and
\* what is written to its response comes from that request alone, no step of
\* one request changes the other's state, and no step changes the
\* configuration.
C18_RequestsIsolated ==
  /\ [](Own(Focus, rid) /\ Own(other, 3 - rid))
  /\ [][(FocusStep \/ Turn) /\ UNCHANGED config]_vars

C18_Witness ==
  /\ pc = "streaming"
  /\ produced # <<>>
  /\ retryCount = 1
  /\ other.pc = "retrySearch"
  /\ other.searchQuery = MessageOf(3 - rid)
  /\ Len(other.events) > 2

\* The functions called, in call order, and the calls not yet settled.
Fns == [i \in 1..Len(calls) |-> calls[i].fn]
InFlight == Len(calls) - completed
Awaiting ==
  pc \in {"needCall", "initialSearch", "draftCall", "adequacyCall", "retrySearch",
          "streamCall", "streaming"}

\* The place of a call in the order need assessment, search, completion,
\* adequacy.
Rank(fn) ==
  CASE fn = "checkIfNeedsSearch" -> 1
    [] fn = "performWebSearch" -> 2
    [] fn \in {"chatBuffered", "chatStream"} -> 3
    [] fn = "confirmResponseAdequacy" -> 4

\* C19 as stated: at most one call is in flight, and the calls start in the
\* order need assessment, search, completion, adequacy.
C19_Original ==
  /\ InFlight <= 1
  /\ \A i, j \in 1..Len(calls) : i < j => Rank(calls[i].fn) < Rank(calls[j].fn)

IsPrefix(s, t) == Len(s) <= Len(t) /\ s = SubSeq(t, 1, Len(s))

\* The orders in which one request calls its collaborators.
CallOrders ==
  {<<"checkIfNeedsSearch", "performWebSearch", "chatStream">>,
   <<"checkIfNeedsSearch", "chatStream">>,
   <<"checkIfNeedsSearch", "chatBuffered", "confirmResponseAdequacy",
     "performWebSearch", "chatStream">>}

\* C19 (amended): exactly the call the handler awaits is in flight, none
\* otherwise; the calls start in the order need assessment, then search and
\* incremental completion, or incremental completion alone, or draft and
\* adequacy and, after an inadequate verdict, search and incremental
\* completion.
C19_OneCallInFlight ==
  /\ InFlight = (IF Awaiting THEN 1 ELSE 0)
  /\ \E order \in CallOrders : IsPrefix(Fns, order)

C19_Witness ==
  /\ Returned
  /\ conn = "ended"
  /\ Len(calls) = 5
  /\ completed = 5
  /\ Fns[4] = "performWebSearch"

\* C20: GET /api/models answers the backend's list when listing succeeds, and
\* 401 with the authentication message or 500 with a message when it fails;
\* GET /api/config always answers 200 with mode, host and defaultModel: the
\* cloud default in cloud mode, in local mode the first listed model, and
\* null when listing fails or lists nothing.
C20_ListingEndpoints ==
  LET listing == apiResponse.listing
      e == listing.error
  IN  /\ apiResponse.endpoint = "models" =>
           IF listing.ok
             THEN /\ apiResponse.status = 200
                  /\ apiResponse.models = listing.models
                  /\ apiResponse.error = <<>>
           ELSE /\ e.caught
                /\ apiResponse.error # <<>>
                /\ Head(apiResponse.error) # ""
                /\ IF e.status_code = 401 \/ e.message = "unauthorized"
                     THEN /\ apiResponse.status = 401
                          /\ Head(apiResponse.error)
                               = "Authentication failed. Please check your OLLAMA_API_KEY in the .env file."
                     ELSE apiResponse.status = 500
      /\ apiResponse.endpoint = "config" =>
           /\ apiResponse.status = 200
           /\ apiResponse.error = <<>>
           /\ apiResponse.mode = (IF isCloudMode THEN "cloud" ELSE "local")
           /\ apiResponse.host = ollamaHost
           /\ apiResponse.defaultModel
                = (IF isCloudMode THEN "gpt-oss:120b-cloud"
                   ELSE IF listing.ok /\ listing.models # <<>> THEN Head(listing.models)
                   ELSE "null")

C20_Witness ==
  /\ apiResponse.endpoint = "config"
  /\ ~isCloudMode
  /\ apiResponse.listing.error.caught
  /\ apiResponse.listing.error.status_code = 401
  /\ apiResponse.defaultModel = "null"

\* C21: performWebSearch raises without sending a request when the
\* credentials are missing, raises when the request fails, is answered with a
\* non-OK status or with an error payload, and otherwise returns the items of
\* the answer: an empty array when there are none, never more than num.
C21_SearchResultsOrFailure ==
  pc = "searched" =>
    IF ~googleConfigured
      THEN error.caught /\ calls = <<>> /\ searchResults.null
    ELSE IF provider.kind # "items"
      THEN error.caught /\ Len(calls) = 1 /\ searchResults.null
    ELSE /\ ~error.caught
         /\ Len(calls) = 1
         /\ calls[1].query = searchQuery
         /\ ~searchResults.null
         /\ Len(searchResults.items) = Min(provider.available, num)
         /\ Len(searchResults.items) <= 5
         /\ \A i \in 1..Len(searchResults.items) :
              searchResults.items[i] = [query |-> searchQuery, rank |-> i]

C21_Witness ==
  /\ pc = "searched"
  /\ googleConfigured
  /\ provider.kind = "items"
  /\ provider.available > num
  /\ Len(searchResults.items) = num

\* Whether a query is empty, and the first of three that is not.
EmptyQuery(q) == q \in {Undefined, ""}
FirstNonEmpty(a, b, c) == IF ~EmptyQuery(a) THEN a ELSE IF ~EmptyQuery(b) THEN b ELSE c

\* C22: after an inadequate verdict the follow-up query is the first
\* non-empty of the verdict's query, the need decision's query and the
\* message; the one search of the request is called with it, and the one
\* announcement names it.
C22_FollowUpQuery ==
  (AdequacyAsked /\ ~Truthy(Verdict.is_adequate)) =>
    LET X == FirstNonEmpty(Verdict.search_query, NeedDecision.search_query, message)
    IN  /\ searchQuery = X
        /\ Len(CallsTo("performWebSearch")) = 1
        /\ CallsTo("performWebSearch")[1].query = X
        /\ Cardinality(Announcements(X)) = 1
        /\ \A i \in 1..Len(events) :
             events[i].message.query # "" => events[i] = Searching(X)

C22_Witness ==
  /\ Returned
  /\ AdequacyAsked
  /\ EmptyQuery(Verdict.search_query)
  /\ NeedDecision.search_query = "q1"
  /\ searchQuery = "q1"
  /\ LastCall.fn = "chatStream"

\* C23: once the adequacy advisor has answered, the search-and-regenerate
\* path is taken exactly when the returned decision's needs_search is true,
\* and the draft is emitted exactly when it is false.
C23_ActsOnNeedsSearch ==
  AdequacyAsked =>
    (Truthy(Verdict.needs_search) <=> Called("performWebSearch"))

\* The calls that ask the model for a completion, and the loop's iterations
\* (each starts by writing the generating event).
CompletionFns == {"checkIfNeedsSearch", "chatBuffered", "confirmResponseAdequacy",
                  "chatStream"}
CompletionCalls == SelectSeq(calls, LAMBDA c : c.fn \in CompletionFns)
Iterations == Cardinality(Positions(LAMBDA e : e = Generating))

\* C24: a request goes through the loop at most twice and makes at most four
\* completion calls, one of each kind, and at most one search; the
\* incremental completion is the last call of the request, so generating
\* never leads back to searching.
C24_LoopBounded ==
  /\ Iterations <= 2
  /\ Len(CompletionCalls) <= 4
  /\ \A fn \in CompletionFns \cup {"performWebSearch"} : Len(CallsTo(fn)) <= 1
  /\ \A i \in 1..Len(calls) : calls[i].fn = "chatStream" => i = Len(calls)
  /\ retryCount <= maxRetries

C24_Witness ==
  /\ Returned
  /\ Iterations = 2
  /\ Len(CompletionCalls) = 4
  /\ Called("performWebSearch")
  /\ retryCount = 1

\* The generation calls of the request.
GenerationCalls == SelectSeq(calls, LAMBDA c : c.fn \in {"chatBuffered", "chatStream"})

\* C25: the history received with the request is never changed while the
\* request is handled, and the messages of every generation call, draft and
\* regeneration alike, are the system prompt, the history in its order and
\* one user entry with the original message; no entry carries the draft.
C25_HistoryFrame ==
  /\ [](\A i \in 1..Len(GenerationCalls) :
          LET c == GenerationCalls[i]
          IN  /\ c.messages = <<SystemEntry(c.prompt)>> \o conversationHistory
                                \o <<Entry("user", message)>>
              /\ \A k \in 1..Len(c.messages) : c.messages[k].draft = <<>>)
  /\ [][pc # "idle" => conversationHistory' = conversationHistory]_vars

C25_Witness ==
  /\ Returned
  /\ conversationHistory # <<>>
  /\ fullResponse # <<>>
  /\ retryCount = 1
  /\ Len(GenerationCalls) = 2
  /\ Len(GenerationCalls[2].messages) = Len(conversationHistory) + 2
  /\ GenerationCalls[2].prompt # GenerationCalls[1].prompt

\* The positions of the events that report the outcome of a successful search.
ResultCountEvents ==
  Positions(LAMBDA e : e.message.text \in {Found(0).message.text, NoResults.message.text})

\* C26: a search that returned is followed, right after its announcement, by
\* exactly one result-count event: 'No search results found' exactly when the
\* results are empty, otherwise 'Found N search result(s)' with N the number
\* of results the system prompt of the following completion embeds; a search
\* that failed or has not returned has no such event.
C26_OneResultCount ==
  IF searchResults.null THEN ResultCountEvents = {}
  ELSE /\ Cardinality(ResultCountEvents) = 1
       /\ \A i \in ResultCountEvents :
            /\ events[i] = (IF searchResults.items = <<>> THEN NoResults
                            ELSE Found(Len(searchResults.items)))
            /\ i > 1
            /\ events[i - 1] = Searching(CallsTo("performWebSearch")[1].query)
       /\ \A i \in 1..Len(calls) :
            calls[i].fn = "chatStream" =>
              Len(calls[i].prompt.results) = Len(searchResults.items)

C26_Witness ==
  /\ Returned
  /\ retryCount = 1
  /\ Len(searchResults.items) = MaxItems
  /\ \E i \in 1..Len(events) : events[i] = Found(MaxItems)
  /\ LastCall.fn = "chatStream"
  /\ Len(LastCall.prompt.results) = MaxItems

\* The stream as written so far, one frame per event.
Stream == [i \in 1..Len(events) |-> Frame(events[i])]

ProgressTypes == {"reasoning", "search", "thinking", "error"}

\* C27: every frame of the stream is "data: ", one JSON payload and a blank
\* line, and the payload is a progress event (content "", a type among
\* reasoning, search, thinking and error, and a message, no done key), a
\* content event (non-empty content, done false) or the terminal event
\* (content "", done true).
C27_WireFormat ==
  \A i \in 1..Len(Stream) :
    LET f == Stream[i]
        p == f.json
    IN  /\ f.prefix = "data: "
        /\ f.suffix = "\n\n"
        /\ \/ /\ p.keys = {"content", "type", "message"}
              /\ p.content = <<>>
              /\ p.type \in ProgressTypes
              /\ p.message.text # ""
           \/ /\ p.keys = {"content", "done"}
              /\ p.content # <<>>
              /\ ~p.done
           \/ /\ p.keys = {"content", "done"}
              /\ p.content = <<>>
              /\ p.done

C27_Witness ==
  /\ Returned
  /\ \E i \in 1..Len(produced) : produced[i] = <<>>
  /\ \E i \in 1..Len(Stream) : Stream[i].json.type = "error"
  /\ \E i \in 1..Len(Stream) : Stream[i].json.type = "search"
  /\ \E i \in 1..Len(Stream) : IsContent(Stream[i].json)
  /\ Stream[Len(Stream)].json = Done

\* The event written last before the call was made, if there is one.
Preceded(c, e) == c.written >= 1 /\ events[c.written] = e

\* C28: the analyzing event is the first event of the stream and is written
\* before checkIfNeedsSearch is called; the generating event is written
\* before the draft completion is called and the verifying event before
\* confirmResponseAdequacy is called.
C28_AnnouncedBeforeCalled ==
  /\ headersSent => (events # <<>> /\ events[1] = Analyzing)
  /\ \A i \in 1..Len(calls) :
       LET c == calls[i]
       IN  /\ c.fn = "checkIfNeedsSearch" => (c.written = 1 /\ Preceded(c, Analyzing))
           /\ c.fn = "chatBuffered" => Preceded(c, Generating)
           /\ c.fn = "confirmResponseAdequacy" => Preceded(c, Verifying)

C28_Witness ==
  /\ Returned
  /\ Called("checkIfNeedsSearch")
  /\ Called("chatBuffered")
  /\ Called("confirmResponseAdequacy")
  /\ CallsTo("confirmResponseAdequacy")[1].written = 3
  /\ SubSeq(events, 1, 3) = <<Analyzing, Generating, Verifying>>

\* The reply holds one Decision object, "{" members "}", and whatever else
\* around it: commentary, white space, code fences.
ObjectAt(s, i) ==
  /\ 1 < i
  /\ i < Len(s)
  /\ s[i] \in Bodies
  /\ s[i - 1] = "{"
  /\ s[i + 1] = "}"
OneObject(reply) ==
  /\ reply.ok
  /\ \E i \in 1..Len(reply.content) :
       /\ ObjectAt(reply.content, i)
       /\ \A j \in 1..Len(reply.content) : reply.content[j] \in Bodies => j = i
TheObject(reply) ==
  Decode(reply.content[CHOOSE i \in 1..Len(reply.content) : ObjectAt(reply.content, i)])

\* C29: when the model's output is one Decision object surrounded by
\* commentary or wrapped in a code fence, each advisor returns the decoded
\* object, not its fallback.
C29_ObjectRecovered ==
  /\ (pc = "assessedNeed" /\ OneObject(needReply)) =>
       searchDecision = TheObject(needReply)
  /\ (pc = "assessedAdequacy" /\ OneObject(adequacyReply)) =>
       confirmation = TheObject(adequacyReply)

\* C30: after an inadequate verdict the retry counter is 1, within the
\* budget; one search is attempted and the answer is regenerated with the
\* incremental completion: no content is written before that call, so the
\* draft is never streamed after an inadequate verdict.
C30_BudgetNeverExhausted ==
  (AdequacyAsked /\ ~Truthy(Verdict.is_adequate)) =>
    /\ retryCount = 1
    /\ retryCount <= maxRetries
    /\ Len(CallsTo("performWebSearch")) = 1
    /\ CallsTo("performWebSearch")[1].written > CallsTo("confirmResponseAdequacy")[1].written
    /\ IF Called("chatStream")
         THEN \A i \in 1..Len(events) :
                IsContent(events[i]) => i > CallsTo("chatStream")[1].written
       ELSE ContentEvents = <<>>
    /\ Returned => LastCall.fn = "chatStream"

C30_Witness ==
  /\ Returned
  /\ AdequacyAsked
  /\ ~Truthy(Verdict.is_adequate)
  /\ fullResponse # <<>>
  /\ retryCount = 1
  /\ ContentEvents # <<>>
  /\ ContentText # fullResponse
  /\ events[Len(events)] = Done

\* A search was called before the i-th call of the request.
SearchedBefore(i) == \E j \in 1..(i - 1) : calls[j].fn = "performWebSearch"
Unusable(results) == results.null \/ results.items = <<>>

\* C31: the system prompt of a generation call carries the note that a search
\* was attempted without results exactly when a search was called earlier in
\* the request and gave no usable results, and it carries the results block
\* exactly when the last search returned at least one result.
C31_NoteIffSearchWithoutResults ==
  \A i \in 1..Len(calls) :
    calls[i].fn \in {"chatBuffered", "chatStream"} =>
      /\ calls[i].prompt.note <=> (SearchedBefore(i) /\ Unusable(searchResults))
      /\ calls[i].prompt.results # <<>> <=> (SearchedBefore(i) /\ ~Unusable(searchResults))

\* C32: when a generation call's system prompt embeds search results, its
\* label names the query that was passed to the search call that returned
\* them, the initial search or the retry search.
C32_LabelNamesQuery ==
  \A i \in 1..Len(calls) :
    (calls[i].fn \in {"chatBuffered", "chatStream"} /\ calls[i].prompt.results # <<>>) =>
      /\ SearchedBefore(i)
      /\ calls[i].prompt.label = CallsTo("performWebSearch")[1].query
      /\ \A k \in 1..Len(calls[i].prompt.results) :
           calls[i].prompt.results[k].query = calls[i].prompt.label

C32_Witness ==
  /\ Returned
  /\ retryCount = 1
  /\ NeedDecision.search_query = "q1"
  /\ Verdict.search_query = "q2"
  /\ LastCall.fn = "chatStream"
  /\ Len(LastCall.prompt.results) = MaxItems
  /\ LastCall.prompt.label = "q2"

\* The searches of the request: the one made on the need decision, before any
\* adequacy check, and the one made after an inadequate verdict.
AdequacyBefore(j) == \E k \in 1..(j - 1) : calls[k].fn = "confirmResponseAdequacy"
InitialSearches == {j \in 1..Len(calls) : calls[j].fn = "performWebSearch" /\ ~AdequacyBefore(j)}
RetrySearches == {j \in 1..Len(calls) : calls[j].fn = "performWebSearch" /\ AdequacyBefore(j)}

\* C33: performWebSearch is called at most once in a request: a request with
\* an initial search has no adequacy check and no retry search, and a request
\* with a retry search had no initial search.
C33_SearchAtMostOnce ==
  /\ Cardinality(InitialSearches) + Cardinality(RetrySearches) <= 1
  /\ InitialSearches # {} => ~Called("confirmResponseAdequacy")
  /\ Cardinality(Positions(LAMBDA e : e.message.query # "")) <= 1

C33_Witness ==
  /\ Returned
  /\ InitialSearches # {}
  /\ searchResults.null
  /\ ErrorEvents # <<>>
  /\ calls[Len(calls)].fn = "chatStream"
  /\ events[Len(events)] = Done

\* C34: no progress event, of whatever type, is written after a content
\* event: all progress events of a stream precede all of its answer text.
C34_ProgressBeforeContent ==
  \A i \in 1..Len(events) : \A j \in (i + 1)..Len(events) :
    IsContent(events[i]) => ~IsProgress(events[j])

C34_Witness ==
  /\ Returned
  /\ retryCount = 1
  /\ ErrorEvents # <<>>
  /\ Len(ContentEvents) = MaxFrags
  /\ events[Len(events)] = Done

Received == SubSeq(events, 1, client.read)
ReceivedContent == SelectSeq(Received, IsContent)
ReceivedText == Concat([i \in 1..Len(ReceivedContent) |-> ReceivedContent[i].content])

\* A history of whole exchanges: a user entry, then an assistant entry.
Alternating(h) ==
  /\ Len(h) % 2 = 0
  /\ \A i \in 1..Len(h) : h[i].role = (IF i % 2 = 1 THEN "user" ELSE "assistant")

\* C36: the client's conversationHistory always holds whole exchanges, user
\* then assistant, and it changes only when the client handles the done event
\* of a request, by appending the message sent and the concatenation of all
\* content received for that request; a request that ends without a done
\* event leaves it as it was.
C36_HistoryOnDoneOnly ==
  /\ [](Alternating(client.conversationHistory))
  /\ [][client'.conversationHistory # client.conversationHistory =>
          /\ client.phase = "reading"
          /\ client'.read = client.read + 1
          /\ events[client'.read] = Done
          /\ client'.conversationHistory =
               client.conversationHistory
                 \o <<Entry("user", client.sent), AssistantEntry(ReceivedText)>>]_vars

C36_Witness ==
  /\ client.phase = "idle"
  /\ ~client.isStreaming
  /\ Len(client.conversationHistory) = 4
  /\ client.conversationHistory[2].draft # <<>>
  /\ client.conversationHistory[4].draft # client.conversationHistory[2].draft
  /\ conversationHistory = SubSeq(client.conversationHistory, 1, 2)

\* A step that starts a chat request.
StartsRequest == client'.inFlight = client.inFlight + 1

\* C37: the client never has more than one chat request under way, every
\* request carries a message and a model, and a request is started only from
\* a state in which the client is not streaming, the trimmed input is not
\* empty and a model is selected and current; it then carries that input and
\* that model.  In every other state sendMessage starts nothing.
C37_OneRequestWithModel ==
  /\ [](/\ client.inFlight <= 1
        /\ client.inFlight = 1 <=> client.isStreaming
        /\ client.isStreaming => (client.sent # "" /\ client.sentModel # ""))
  /\ [][StartsRequest =>
          /\ ~client.isStreaming
          /\ TrimInput(client.input) # ""
          /\ client.currentModel # ""
          /\ client.selected # ""
          /\ client'.sent = TrimInput(client.input)
          /\ client'.sentModel = client.selected]_vars

C37_Witness ==
  /\ client.isStreaming
  /\ client.phase = "reading"
  /\ client.read > 0
  /\ client.inFlight = 1
  /\ TrimInput(client.input) # ""
  /\ client.selected # ""
  /\ client.currentModel = client.selected

====
